---- MODULE Spec2Model ----
(***************************************************************************)
(* Model of the vivintpy gateway.  Three parts, each with its own          *)
(* specification over its own variables:                                   *)
(*   SpecAuth  - local auth bridge (vivintpy_api/routers/auth.py, deps.py) *)
(*               over the key-value store, with concurrent requests that   *)
(*               suspend at every KV / upstream call;                      *)
(*   SpecApi   - upstream transport and auth state machine                 *)
(*               (vivintpy/api.py) of one VivintSkyApi object;             *)
(*   SpecPush  - site / panel / user push dispatch (vivintpy/system.py,    *)
(*               devices/alarm_panel.py, user.py, entity.py).              *)
(***************************************************************************)
EXTENDS Integers, Sequences, FiniteSets, TLC

(***************************************************************************)
(* Part 1: local auth bridge                                               *)
(***************************************************************************)

\* ---- bounds of the model
MaxTime == 1
MaxMfa == 1
MaxCount == 2
\* token lifetimes in clock ticks (settings.ACCESS_TOKEN_EXPIRE_MINUTES,
\* settings.REFRESH_TOKEN_EXPIRE_DAYS scaled to the model clock)
AccessLife == 1
RefreshLife == 1

Users == {"u1"}
Upstream == {"V1", "V2"}
Slots == {1, 2}
MfaIds == 1..MaxMfa

\* Account.__init__ keyword parameters (account.py:30-37)
AccountInitParams == {"username", "password", "refresh_token", "client_session", "stream"}

VARIABLES
  now,        \* wall clock, in ticks
  kvVrt,      \* KV user:{u}:vivint_refresh_token  ("none" = key absent)
  kvArt,      \* KV user:{u}:api_refresh_token     (NoTok = key absent)
  kvMfa,      \* KV mfa_session:{id}:session_data  (NoBlob = key absent)
  nextSid,    \* number of MFA session ids handed out (uuid4 is fresh)
  rq,         \* request slots: one in-flight HTTP request each
  rtIssued,   \* refresh tokens returned to a client so far
  rtCredit,   \* refresh token -> times it was issued minus the refresh
              \* requests presenting it that were answered 200
  revoked,    \* user -> a mismatch revocation happened and no login completed since
  lastAuth    \* last decision of get_current_user

authVars == <<now, kvVrt, kvArt, kvMfa, nextSid, rq, rtIssued, rtCredit, revoked, lastAuth>>

VARIABLES
  api,        \* fields of one VivintSkyApi object
  lastCall    \* the last operation on it: state before, outcome, requests sent

apiVars == <<api, lastCall>>

VARIABLES
  site,       \* one System with its users, its alarm panel and the panel's devices
  lastPush,   \* the exception the last operation on the graph ended with
  device,     \* one device entity on its own: its class, raw payload and typed model
  lastOp      \* the last update_data call made on an entity from outside

pushVars == <<site, lastPush, device, lastOp>>

VARIABLES
  listeners,  \* Entity._listeners[event_name]: the callbacks, in registration order
  behaviour,  \* what each callback does when it is called
  handles,    \* the callbacks an unsubscribe handle has been returned for
  before,     \* the listener list when the last emit began
  called,     \* the callbacks the last emit called, in call order
  emitExc     \* the exception the last emit ended with

busVars == <<listeners, behaviour, handles, before, called, emitExc>>

VARIABLES
  routed      \* the last account_partition message routed, and whether the panel's handler was entered

VARIABLES
  channel,    \* messages the subscription has received and not yet handed to the listener
  nextSeq,    \* receive number of the next message
  deferred,   \* calls handed to the event loop that have not run
  applied,    \* receive numbers of the messages applied to the graph, in order of application
  heard       \* what the entity listeners were called with, in call order

streamVars == <<channel, nextSeq, deferred, applied, heard>>

VARIABLES
  pc,           \* position of the /ws/events handler
  closeCode,    \* code the server closed the WebSocket with, 0 while it has not
  qlen,         \* event_queue.qsize()
  closeTasks,   \* websocket.close tasks created and not run
  busTask,      \* the _bus_listener task
  busQueue,     \* whether bus_queue is subscribed to capture_saved
  stream,       \* the realtime stream of the account
  account,      \* whether the upstream client is connected
  overflowed    \* whether put_nowait has raised QueueFull

wsVars == <<pc, closeCode, qlen, closeTasks, busTask, busQueue, stream, account, overflowed>>

VARIABLES
  conn,       \* one Account: who holds it, its connected flag, client session and stream
  lastDisc    \* the last disconnect call: the object, the state before, the calls it made

connVars == <<conn, lastDisc>>

VARIABLES
  ent         \* one entity's raw dict, key by key, and the last update_data call on it

VARIABLES
  snap        \* the three copies of one device's entry: device.data, the entry in
              \* panel._data_model.devices, the entry in panel.data["d"]

VARIABLES
  feed,       \* the buffer of one /ws/events connection and the frames sent to its client
  relay,      \* the filters of one /ws/events connection and what pubnub_callback did last
  cam,        \* the last push handled by one camera and the events it emitted
  armed       \* the raw state of one panel and the last value its state property returned

tailVars == <<feed, relay, cam, armed>>

laterVars == <<connVars, ent, snap, tailVars>>

otherVars == <<busVars, routed, streamVars, wsVars, laterVars>>

vars == <<authVars, apiVars, pushVars, otherVars>>

\* ---- JWTs.  jwt.encode is deterministic: equal claims give equal tokens.
NoTok == [sig |-> FALSE, sub |-> "none", tt |-> "none", vrt |-> "none", exp |-> 0]

create_access_token(u, v, t) ==
  [sig |-> TRUE, sub |-> u, tt |-> "access", vrt |-> v, exp |-> t + AccessLife]

create_refresh_token(u, t) ==
  [sig |-> TRUE, sub |-> u, tt |-> "refresh", vrt |-> "none", exp |-> t + RefreshLife]

\* jwt.decode: signature and exp are verified; JWTError otherwise
JwtDecodes(tok, t) == tok.sig /\ tok.exp >= t

RefreshTokens == {create_refresh_token(u, t) : u \in Users, t \in 0..MaxTime}

\* tokens a client can put in a request: any claims, signed or not
TokenInputs ==
  [sig : BOOLEAN, sub : Users \cup {"none"}, tt : {"access", "refresh", "none"},
   vrt : Upstream \cup {"none"}, exp : {0, MaxTime + AccessLife}]

\* ---- MFA session blob stored by /auth/login
NoBlob == [present |-> FALSE, user |-> "none", cookies |-> FALSE, verifier |-> FALSE]

IdleReq ==
  [kind |-> "idle", pc |-> "idle", user |-> "none", tok |-> NoTok, stored |-> NoTok,
   vrt |-> "none", sid |-> 0, res |-> 0, blob |-> NoBlob, rebuilt |-> FALSE]

\* the empty store with no request in flight
AuthStart ==
  /\ now = 0
  /\ kvVrt = [u \in Users |-> "none"]
  /\ kvArt = [u \in Users |-> NoTok]
  /\ kvMfa = [i \in MfaIds |-> NoBlob]
  /\ nextSid = 0
  /\ rq = [r \in Slots |-> IdleReq]
  /\ rtIssued = {}
  /\ rtCredit = [t \in RefreshTokens |-> 0]
  /\ revoked = [u \in Users |-> FALSE]
  /\ lastAuth = [tok |-> NoTok, stored |-> "none", at |-> 0, res |-> 0]

\* one more issue of t / one more successful refresh with t (counts are capped)
Credit(f, t) == [f EXCEPT ![t] = IF @ < MaxCount THEN @ + 1 ELSE @]
Debit(f, t) == [f EXCEPT ![t] = IF @ > -1 THEN @ - 1 ELSE @]

\* the handler has returned: its locals are gone, the response remains
Done(r, code) ==
  [rq EXCEPT ![r].pc = "done", ![r].res = code, ![r].stored = NoTok, ![r].vrt = "none"]

Tick ==
  /\ now < MaxTime
  /\ now' = now + 1
  /\ UNCHANGED <<kvVrt, kvArt, kvMfa, nextSid, rq, rtIssued, rtCredit, revoked, lastAuth, apiVars, pushVars, otherVars>>

\* the response has been delivered; the slot is free again
Finish(r) ==
  /\ rq[r].pc = "done"
  /\ rq' = [rq EXCEPT ![r] = IdleReq]
  /\ UNCHANGED <<now, kvVrt, kvArt, kvMfa, nextSid, rtIssued, rtCredit, revoked, lastAuth, apiVars, pushVars, otherVars>>

\* ---- POST /auth/login (auth.py:32-138)

StartLogin(r, u) ==
  /\ rq[r].pc = "idle"
  /\ rq' = [rq EXCEPT ![r] = [IdleReq EXCEPT !.kind = "login", !.pc = "l_get", !.user = u]]
  /\ UNCHANGED <<now, kvVrt, kvArt, kvMfa, nextSid, rtIssued, rtCredit, revoked, lastAuth, apiVars, pushVars, otherVars>>

\* auth.py:42-46: GET of the stored upstream refresh token
LoginGetStored(r) ==
  /\ rq[r].pc = "l_get"
  /\ rq' = [rq EXCEPT ![r].pc = IF kvVrt[rq[r].user] # "none" THEN "l_rt" ELSE "l_pw"]
  /\ UNCHANGED <<now, kvVrt, kvArt, kvMfa, nextSid, rtIssued, rtCredit, revoked, lastAuth, apiVars, pushVars, otherVars>>

\* the MFA branch of the handler up to its first KV call (auth.py:93-99):
\* cookies and code_verifier are read from the account that raised
LoginToMfa(r, cookies, verifier) ==
  [rq EXCEPT ![r].pc = "l_mfa",
             ![r].blob = [present |-> TRUE, user |-> rq[r].user,
                          cookies |-> cookies, verifier |-> verifier]]

\* auth.py:49-58: Account(refresh_token=stored).connect(); the upstream decides
LoginRefreshConnect(r) ==
  /\ rq[r].pc = "l_rt"
  /\ \/ \E v \in Upstream : rq' = [rq EXCEPT ![r].pc = "l_setvrt", ![r].vrt = v]
     \/ rq' = [rq EXCEPT ![r].pc = "l_pw"]                  \* AuthenticationError: fall back
     \/ rq' = Done(r, 500)                                  \* any other exception
  /\ UNCHANGED <<now, kvVrt, kvArt, kvMfa, nextSid, rtIssued, rtCredit, revoked, lastAuth, apiVars, pushVars, otherVars>>

\* auth.py:61-65: Account(password=...).connect(): PKCE login
LoginPasswordConnect(r) ==
  /\ rq[r].pc = "l_pw"
  /\ \/ \E v \in Upstream : rq' = [rq EXCEPT ![r].pc = "l_setvrt", ![r].vrt = v]
     \/ \E c \in BOOLEAN : rq' = LoginToMfa(r, c, TRUE)
     \/ rq' = Done(r, 401)
     \/ rq' = Done(r, 500)
  /\ UNCHANGED <<now, kvVrt, kvArt, kvMfa, nextSid, rtIssued, rtCredit, revoked, lastAuth, apiVars, pushVars, otherVars>>

\* auth.py:68-73: SET user:{u}:vivint_refresh_token
LoginSetVrt(r) ==
  /\ rq[r].pc = "l_setvrt"
  /\ kvVrt' = [kvVrt EXCEPT ![rq[r].user] = rq[r].vrt]
  /\ rq' = [rq EXCEPT ![r].pc = "l_setart"]
  /\ UNCHANGED <<now, kvArt, kvMfa, nextSid, rtIssued, rtCredit, revoked, lastAuth, apiVars, pushVars, otherVars>>

\* the tokens a handler builds from its local vivint_refresh_token
\* (auth.py:76-79, 209-212, 302-305)
IssueAccess(r) == create_access_token(rq[r].user, rq[r].vrt, now)
IssueRefresh(r) == create_refresh_token(rq[r].user, now)

\* auth.py:76-91: build both JWTs, SET user:{u}:api_refresh_token, answer 200
LoginSetArt(r) ==
  /\ rq[r].pc = "l_setart"
  /\ kvArt' = [kvArt EXCEPT ![rq[r].user] = IssueRefresh(r)]
  /\ rtIssued' = rtIssued \cup {IssueRefresh(r)}
  /\ rtCredit' = Credit(rtCredit, IssueRefresh(r))
  /\ revoked' = [revoked EXCEPT ![rq[r].user] = FALSE]
  /\ rq' = [Done(r, 200) EXCEPT ![r].tok = IssueAccess(r)]
  /\ UNCHANGED <<now, kvVrt, kvMfa, nextSid, lastAuth, apiVars, pushVars, otherVars>>

\* auth.py:95-119: SET mfa_session:{uuid4}:session_data, answer 400 MFA_REQUIRED
LoginMfaStore(r) ==
  /\ rq[r].pc = "l_mfa"
  /\ nextSid < MaxMfa
  /\ nextSid' = nextSid + 1
  /\ kvMfa' = [kvMfa EXCEPT ![nextSid + 1] = rq[r].blob]
  /\ rq' = [Done(r, 400) EXCEPT ![r].sid = nextSid + 1, ![r].blob = NoBlob]
  /\ UNCHANGED <<now, kvVrt, kvArt, rtIssued, rtCredit, revoked, lastAuth, apiVars, pushVars, otherVars>>

\* ---- POST /auth/verify-mfa (auth.py:140-238)

StartVerify(r, sid) ==
  /\ rq[r].pc = "idle"
  /\ rq' = [rq EXCEPT ![r] = [IdleReq EXCEPT !.kind = "verify", !.pc = "v_get", !.sid = sid]]
  /\ UNCHANGED <<now, kvVrt, kvArt, kvMfa, nextSid, rtIssued, rtCredit, revoked, lastAuth, apiVars, pushVars, otherVars>>

\* auth.py:170: all([username, password, cookies, code_verifier])
BlobComplete(b) == b.cookies /\ b.verifier

\* auth.py:187-192: Account(username=, password=, client_session=, code_verifier=)
\* is a TypeError unless every keyword is a parameter of Account.__init__
VerifyAccountKeywords == {"username", "password", "client_session", "code_verifier"}
AccountConstructs == VerifyAccountKeywords \subseteq AccountInitParams

\* auth.py:147-192: pipeline GET of the blob (execute() returns a one-element
\* list, so the "not session_data" test never fires), json.loads, the field
\* check and the Account construction: all local code after the GET.
\* Lines 194-238 (verify, both SETs, and the finally that DELETEs the blob) run
\* only once the Account exists; "rebuilt" records that an upstream client
\* holding the stored cookies and code_verifier was made.
VerifyGet(r) ==
  /\ rq[r].pc = "v_get"
  /\ LET b == kvMfa[rq[r].sid] IN
     IF ~b.present
     THEN /\ rq' = Done(r, 500)                 \* json.loads(None): TypeError
          /\ UNCHANGED <<kvVrt, kvArt, kvMfa, rtIssued, rtCredit, revoked>>
     ELSE IF ~BlobComplete(b)
     THEN /\ rq' = [Done(r, 400) EXCEPT ![r].blob = b]
          /\ UNCHANGED <<kvVrt, kvArt, kvMfa, rtIssued, rtCredit, revoked>>
     ELSE IF ~AccountConstructs
     THEN /\ rq' = [Done(r, 500) EXCEPT ![r].blob = b]
          /\ UNCHANGED <<kvVrt, kvArt, kvMfa, rtIssued, rtCredit, revoked>>
     ELSE \* auth.py:194-238
          /\ kvMfa' = [kvMfa EXCEPT ![rq[r].sid] = NoBlob]
          /\ \/ \E v \in Upstream :
                  /\ kvVrt' = [kvVrt EXCEPT ![b.user] = v]
                  /\ kvArt' = [kvArt EXCEPT ![b.user] = create_refresh_token(b.user, now)]
                  /\ rtIssued' = rtIssued \cup {create_refresh_token(b.user, now)}
                  /\ rtCredit' = Credit(rtCredit, create_refresh_token(b.user, now))
                  /\ revoked' = [revoked EXCEPT ![b.user] = FALSE]
                  /\ rq' = [Done(r, 200) EXCEPT ![r].blob = b, ![r].user = b.user,
                                                ![r].rebuilt = TRUE,
                                                ![r].tok = create_access_token(b.user, v, now)]
             \/ /\ rq' = [Done(r, 401) EXCEPT ![r].blob = b, ![r].rebuilt = TRUE]
                /\ UNCHANGED <<kvVrt, kvArt, rtIssued, rtCredit, revoked>>
  /\ UNCHANGED <<now, nextSid, lastAuth, apiVars, pushVars, otherVars>>

\* ---- POST /auth/refresh-token (auth.py:240-318)

\* auth.py:259-274: decode; sub present and token_type == "refresh"
RefreshPayloadOk(tok, t) == JwtDecodes(tok, t) /\ tok.sub # "none" /\ tok.tt = "refresh"

\* what a client can send: a refresh token it was given, or something that
\* does not decode to a refresh payload
RefreshInputs ==
  rtIssued
    \cup {NoTok, create_access_token("u1", "V1", MaxTime)}

StartRefresh(r, tok) ==
  /\ rq[r].pc = "idle"
  /\ rq' = [rq EXCEPT ![r] =
              IF RefreshPayloadOk(tok, now)
              THEN [IdleReq EXCEPT !.kind = "refresh", !.pc = "r_get", !.user = tok.sub, !.tok = tok]
              ELSE [IdleReq EXCEPT !.kind = "refresh", !.pc = "done", !.res = 401, !.tok = tok]]
  /\ UNCHANGED <<now, kvVrt, kvArt, kvMfa, nextSid, rtIssued, rtCredit, revoked, lastAuth, apiVars, pushVars, otherVars>>

\* auth.py:276-281: GET user:{u}:api_refresh_token
RefreshGet(r) ==
  /\ rq[r].pc = "r_get"
  /\ rq' = IF kvArt[rq[r].user] = NoTok
           THEN Done(r, 401)
           ELSE [rq EXCEPT ![r].pc = "r_cmp", ![r].stored = kvArt[rq[r].user]]
  /\ UNCHANGED <<now, kvVrt, kvArt, kvMfa, nextSid, rtIssued, rtCredit, revoked, lastAuth, apiVars, pushVars, otherVars>>

\* auth.py:283
RefreshMatches(r) == rq[r].stored = rq[r].tok

\* auth.py:283-287: mismatch: DELETE the stored token, answer 401
RefreshRevoke(r) ==
  /\ rq[r].pc = "r_cmp"
  /\ ~RefreshMatches(r)
  /\ kvArt' = [kvArt EXCEPT ![rq[r].user] = NoTok]
  /\ revoked' = [revoked EXCEPT ![rq[r].user] = TRUE]
  /\ rq' = Done(r, 401)
  /\ UNCHANGED <<now, kvVrt, kvMfa, nextSid, rtIssued, rtCredit, lastAuth, apiVars, pushVars, otherVars>>

\* variant: the handler goes on with whatever the GET returned
RefreshGetVrt_unchecked(r) ==
  /\ rq[r].pc = "r_cmp"
  /\ RefreshMatches(r)
  /\ rq' = [rq EXCEPT ![r].pc = "r_set", ![r].vrt = kvVrt[rq[r].user]]
  /\ UNCHANGED <<now, kvVrt, kvArt, kvMfa, nextSid, rtIssued, rtCredit, revoked, lastAuth, apiVars, pushVars, otherVars>>

\* auth.py:293-300: match: GET user:{u}:vivint_refresh_token
RefreshGetVrt(r) ==
  /\ rq[r].pc = "r_cmp"
  /\ RefreshMatches(r)
  /\ rq' = IF kvVrt[rq[r].user] = "none"
           THEN Done(r, 500)
           ELSE [rq EXCEPT ![r].pc = "r_set", ![r].vrt = kvVrt[rq[r].user]]
  /\ UNCHANGED <<now, kvVrt, kvArt, kvMfa, nextSid, rtIssued, rtCredit, revoked, lastAuth, apiVars, pushVars, otherVars>>

\* auth.py:302-318: build both JWTs, overwrite the stored refresh token, answer 200
RefreshSetArt(r) ==
  /\ rq[r].pc = "r_set"
  /\ kvArt' = [kvArt EXCEPT ![rq[r].user] = IssueRefresh(r)]
  /\ rtIssued' = rtIssued \cup {IssueRefresh(r)}
  /\ rtCredit' = Credit(Debit(rtCredit, rq[r].tok), IssueRefresh(r))
  /\ rq' = [Done(r, 200) EXCEPT ![r].tok = IssueAccess(r)]
  /\ UNCHANGED <<now, kvVrt, kvMfa, nextSid, revoked, lastAuth, apiVars, pushVars, otherVars>>

\* ---- protected endpoints: deps.get_current_user (deps.py:135-169)

\* variant without the token_type test
get_current_user_any_type(tok, stored, t) ==
  IF ~JwtDecodes(tok, t) THEN 401
  ELSE IF tok.sub = "none" \/ tok.vrt = "none" THEN 401
  ELSE IF stored = "none" \/ stored # tok.vrt THEN 401
  ELSE 200

\* the dependency's verdict on a bearer token, given the KV value it reads
get_current_user(tok, stored, t) ==
  IF ~JwtDecodes(tok, t) THEN 401
  ELSE IF tok.sub = "none" \/ tok.tt # "access" \/ tok.vrt = "none" THEN 401
  ELSE IF stored = "none" \/ stored # tok.vrt THEN 401
  ELSE 200

StoredFor(tok) == IF tok.sub \in Users THEN kvVrt[tok.sub] ELSE "none"

GetCurrentUser(tok) ==
  /\ lastAuth' = [tok |-> tok, stored |-> StoredFor(tok), at |-> now,
                  res |-> get_current_user(tok, StoredFor(tok), now)]
  /\ UNCHANGED <<now, kvVrt, kvArt, kvMfa, nextSid, rq, rtIssued, rtCredit, revoked, apiVars, pushVars, otherVars>>

AuthNext ==
  \/ Tick
  \/ \E r \in Slots : Finish(r)
  \/ \E r \in Slots, u \in Users : StartLogin(r, u)
  \/ \E r \in Slots : LoginGetStored(r)
  \/ \E r \in Slots : LoginRefreshConnect(r)
  \/ \E r \in Slots : LoginPasswordConnect(r)
  \/ \E r \in Slots : LoginSetVrt(r)
  \/ \E r \in Slots : LoginSetArt(r)
  \/ \E r \in Slots : LoginMfaStore(r)
  \/ \E r \in Slots, sid \in MfaIds : StartVerify(r, sid)
  \/ \E r \in Slots : VerifyGet(r)
  \/ \E r \in Slots, tok \in RefreshInputs : StartRefresh(r, tok)
  \/ \E r \in Slots : RefreshGet(r)
  \/ \E r \in Slots : RefreshRevoke(r)
  \/ \E r \in Slots : RefreshGetVrt(r)
  \/ \E r \in Slots : RefreshSetArt(r)

\* auth.py:69-73, 203-207: user:{u}:vivint_refresh_token is stored with a time
\* to live of 90 days that only a login renews (auth.py:306-312 renews the
\* other key): the store drops it
VrtExpires(u) ==
  /\ kvVrt[u] # "none"
  /\ kvVrt' = [kvVrt EXCEPT ![u] = "none"]
  /\ UNCHANGED <<now, kvArt, kvMfa, nextSid, rq, rtIssued, rtCredit, revoked, lastAuth, apiVars, pushVars, otherVars>>

RotateNext ==
  \/ AuthNext
  \/ \E u \in Users : VrtExpires(u)

\* protected requests at any time against any content of the upstream-token key
GuardStart ==
  /\ now = 0
  /\ kvVrt \in [Users -> Upstream \cup {"none"}]
  /\ kvArt = [u \in Users |-> NoTok]
  /\ kvMfa = [i \in MfaIds |-> NoBlob]
  /\ nextSid = 0
  /\ rq = [r \in Slots |-> IdleReq]
  /\ rtIssued = {}
  /\ rtCredit = [t \in RefreshTokens |-> 0]
  /\ revoked = [u \in Users |-> FALSE]
  /\ lastAuth = [tok |-> NoTok, stored |-> "none", at |-> 0, res |-> 0]

GuardNext ==
  \/ Tick
  \/ \E tok \in TokenInputs : GetCurrentUser(tok)

(***************************************************************************)
(* Part 2: upstream transport and auth state machine (vivintpy/api.py)     *)
(*                                                                         *)
(* One VivintSkyApi object used by one task.  Every public operation is    *)
(* one action; the upstream's answers to the requests it sends are chosen  *)
(* nondeterministically, so an operation has a set of outcomes.            *)
(***************************************************************************)

\* ---- bounds of the model
MaxTok == 2      \* distinct token sets the upstream hands out
MaxDepth == 1    \* connect calls nested inside one another before the interpreter gives up

TokenIds == 1..MaxTok
NextTok(k) == (k % MaxTok) + 1

\* VivintSkyApi.__init__ (api.py:51-68); token 0 is None, verifier 0 is None,
\* verifier 1 was passed to the constructor, verifier 2 is generated by the object
NewApi(password, refresh, custom, verifier) ==
  [token |-> 0, valid |-> FALSE, pending |-> FALSE, mtype |-> "code", closed |-> FALSE,
   custom |-> custom, password |-> password, refresh |-> refresh, verifier |-> verifier]

NoCall == [op |-> "none", body |-> "none", pre |-> NewApi(FALSE, FALSE, FALSE, 0),
           exc |-> "none", sent |-> <<>>]

\* ---- outcomes of (part of) an operation
Outcome(st, exc, val, sent) == [st |-> st, exc |-> exc, val |-> val, sent |-> sent]
Raise(st, exc) == Outcome(st, exc, "none", <<>>)
Return(st, val) == Outcome(st, "none", val, <<>>)

\* sequencing of awaits: an exception of the first part o propagates
\* (Failed), otherwise the rest S runs after it (After)
Failed(o) == o.exc # "none"
After(o, S) == {[k EXCEPT !.sent = o.sent \o @] : k \in S}

\* api.py:97-109: a token is held and its id_token has not expired
is_session_valid(st) == st.token # 0 /\ st.valid

\* api.py:116: tokens.get("refresh_token") or self.__refresh_token
HoldsRefreshToken(st) == st.token # 0 \/ st.refresh

\* what the upstream can answer to each request: 200 bodies by shape
\* ("stale" = tokens whose id_token is already expired), 302, 4xx with
\* message mfa_required or another message, any other status >= 400
ResponsesTo(what) ==
  CASE what = "grant" -> {"ok", "stale", "deny", "denyMfa", "err"}
    [] what = "exchange" -> {"ok", "stale", "deny", "err"}
    [] what = "authuser" -> {"ok", "empty", "deny", "denyMfa", "err"}
    [] what = "pkce_auth" -> {"redir", "ok", "deny", "err"}
    [] what = "submit" -> {"ok", "stale", "mfaCode", "mfaApp", "deny", "err"}
    [] what = "validate" -> {"url", "ok", "deny", "denyMfa", "err"}
    [] what = "follow" -> {"redir", "ok", "deny", "err"}
    [] OTHER -> {"ok", "deny", "denyMfa", "err"}

Denied == {"deny", "denyMfa"}

\* api.py:981: isinstance(data, dict) and "code" in data
IsMfaRequest(body) == body = "dictCode"

\* variant: no gate
MfaGate_off(st, body) == FALSE

\* api.py:983-984
MfaGate(st, body) == st.pending /\ ~IsMfaRequest(body)

\* variant: the header is added whatever the host
Bearer_any_host(st, auth) == st.token

\* api.py:986-989: the Authorization header (0 = no header)
Bearer(st, auth) == IF ~auth /\ st.token # 0 THEN st.token ELSE 0

\* variant: every rejection is an authentication error
Settle_auth(st, auth, body, resp) ==
  IF resp \in Denied
  THEN Raise(st, "AuthenticationError")
  ELSE IF resp = "err" THEN Raise(st, "TransportError") ELSE Return(st, resp)

\* api.py:1028-1050: the status classification of one response
Settle(st, auth, body, resp) ==
  IF resp \in Denied
  THEN IF resp = "denyMfa" \/ IsMfaRequest(body)
       THEN Raise([st EXCEPT !.pending = TRUE], "MfaRequired")
       ELSE Raise(st, IF auth THEN "AuthenticationError" ELSE "ApiError")
  ELSE IF resp = "err" THEN Raise(st, "TransportError")
  ELSE Return(st, resp)

\* one request on the wire: target host, body shape, Authorization header, the token held
\* when it was sent, the PKCE verifier it carries or derives from, the answer
Request(st, what, auth, body, bearer, resp) ==
  [what |-> what, auth |-> auth, body |-> body, bearer |-> bearer, cur |-> st.token,
   pk |-> IF what \in {"pkce_auth", "exchange"} THEN st.verifier ELSE 0, resp |-> resp]

\* api.py:977-1050: __call after its pre-send connect
Send(st, what, auth, body) ==
  IF st.closed THEN {Raise(st, "ApiError")}
  ELSE IF MfaGate(st, body) THEN {Raise(st, "MfaRequired")}
  ELSE {[Settle(st, auth, body, r) EXCEPT
           !.sent = <<Request(st, what, auth, body, Bearer(st, auth), r)>>] : r \in ResponsesTo(what)}

\* api.py:163-171, 754-767: self.__token = resp
WithToken(st, val) == [st EXCEPT !.token = NextTok(@), !.valid = (val = "ok")]

RECURSIVE call(_, _, _, _, _)
RECURSIVE connect(_, _)

\* api.py:163-171
refresh_token(st) ==
  UNION {IF Failed(o) THEN {o} ELSE After(o, {Return(WithToken(o.st, o.val), "none")})
         : o \in call(st, "grant", TRUE, "dict", 0)}

\* api.py:754-767
exchange_auth_code(st) ==
  UNION {IF Failed(o) THEN {o} ELSE After(o, {Return(WithToken(o.st, o.val), "none")})
         : o \in call(st, "exchange", TRUE, "dictCode", 0)}

\* api.py:727-752: username/password submit, MFA challenge or tokens
submit_credentials(st) ==
  UNION {IF Failed(o) THEN {o}
         ELSE After(o, IF o.val \in {"mfaCode", "mfaApp"}
                       THEN {Raise([o.st EXCEPT !.pending = TRUE,
                                                !.mtype = IF o.val = "mfaCode" THEN "code" ELSE "mfa"],
                                   "MfaRequired")}
                       ELSE {Return(WithToken(o.st, o.val), "none")})
         : o \in call(st, "submit", TRUE, "str", 0)}

\* api.py:696-725: the PKCE request and what follows its answer
pkce_login(st) ==
  LET s1 == IF st.verifier = 0 THEN [st EXCEPT !.verifier = 2] ELSE st IN
  UNION {IF Failed(o) THEN {o}
         ELSE After(o, IF o.val = "redir" THEN exchange_auth_code(o.st)
                       ELSE submit_credentials(o.st))
         : o \in call(s1, "pkce_auth", TRUE, "none", 0)}

\* api.py:689-752: __get_vivintsky_session
get_vivintsky_session(st) ==
  IF st.refresh
  THEN UNION {IF Failed(o) THEN {o}
              ELSE After(o, IF is_session_valid(o.st) THEN {Return(o.st, "none")}
                            ELSE pkce_login(o.st))
              : o \in refresh_token(st)}
  ELSE pkce_login(st)

\* api.py:151-161: follow the url of the validation answer, exchange the code
follow_redirect(st) ==
  UNION {IF Failed(f) THEN {f}
         ELSE After(f, IF f.val = "redir" THEN exchange_auth_code(f.st)
                       ELSE {Return(f.st, "none")})
         : f \in call(st, "follow", TRUE, "none", 0)}

\* api.py:137-161
verify_mfa(st) ==
  UNION {IF Failed(o) THEN {o}
         ELSE After(o, IF o.val = "url" THEN follow_redirect(o.st) ELSE {Return(o.st, "none")})
         : o \in call([st EXCEPT !.pending = FALSE], "validate", TRUE, "str", 0)}

\* api.py:964-1050: __call; d is the number of connect calls it may still nest
call(st, what, auth, body, d) ==
  UNION {IF Failed(p) THEN {p} ELSE After(p, Send(p.st, what, auth, body))
         : p \in IF ~auth /\ ~is_session_valid(st) THEN connect(st, d)
                 ELSE {Return(st, "none")}}

\* api.py:173-183 and 127-129: the authuser data, which must name users
get_authuser_data(st, d) ==
  UNION {IF Failed(o) THEN {o}
         ELSE After(o, IF o.val = "empty" THEN {Raise(o.st, "AuthenticationError")}
                       ELSE {Return(o.st, "none")})
         : o \in call(st, "authuser", FALSE, "none", d)}

\* api.py:113-125: the credential connect uses
authenticate(st) ==
  IF st.custom /\ is_session_valid(st) THEN {Return(st, "none")}
  ELSE IF HoldsRefreshToken(st)
  THEN UNION {IF Failed(o) THEN {o}
              ELSE After(o, {Return([o.st EXCEPT !.refresh = TRUE], "none")})
              : o \in refresh_token(st)}
  ELSE IF st.password THEN get_vivintsky_session(st)
  ELSE {Raise(st, "AuthenticationError")}

\* api.py:111-130
connect(st, d) ==
  IF d = 0 THEN {Raise(st, "RecursionError")}
  ELSE UNION {IF Failed(a) THEN {a} ELSE After(a, get_authuser_data(a.st, d - 1))
              : a \in authenticate(st)}

\* api.py:807-962: _raw_put / _raw_get go to the client session directly, with
\* the caller's headers and the session cookies
raw_transfer(st) ==
  UNION {IF Failed(p) THEN {p}
         ELSE After(p, IF p.st.closed THEN {Raise(p.st, "RuntimeError")}
                       ELSE {Outcome(p.st, IF r = "ok" THEN "none" ELSE "ApiError", r,
                                     <<Request(p.st, "raw", FALSE, "none", 0, r)>>)
                             : r \in {"ok", "deny", "err"}})
         : p \in IF ~is_session_valid(st) THEN connect(st, MaxDepth)
                 ELSE {Return(st, "none")}}

\* api.py:1052-1074: _send_grpc: the token travels as call metadata
send_grpc(st) ==
  IF ~is_session_valid(st) THEN {Raise(st, "AssertionError")}
  ELSE {Outcome(st, IF r = "ok" THEN "none" ELSE "RpcError", r,
                <<Request(st, "grpc", FALSE, "none", 0, r)>>) : r \in {"ok", "err"}}

\* ---- the operations on the object

Bodies == {"none", "str", "dict", "dictCode"}

Record(op, body, o) ==
  /\ api' = o.st
  /\ lastCall' = [op |-> op, body |-> body, pre |-> api, exc |-> o.exc, sent |-> o.sent]
  /\ UNCHANGED <<authVars, pushVars, otherVars>>

ApiConnect == \E o \in connect(api, MaxDepth) : Record("connect", "none", o)

ApiVerifyMfa == \E o \in verify_mfa(api) : Record("verify_mfa", "str", o)

ApiRefreshToken == \E o \in refresh_token(api) : Record("refresh_token", "dict", o)

\* any REST wrapper call to the API host (get_system_data, set_alarm_state, ...)
ApiRequest(body) == \E o \in call(api, "user", FALSE, body, MaxDepth) : Record("request", body, o)

ApiRawTransfer == \E o \in raw_transfer(api) : Record("raw", "none", o)

ApiSendGrpc == \E o \in send_grpc(api) : Record("grpc", "none", o)

\* api.py:132-135
ApiDisconnect ==
  /\ api' = IF api.custom THEN api ELSE [api EXCEPT !.closed = TRUE]
  /\ lastCall' = [op |-> "disconnect", body |-> "none", pre |-> api, exc |-> "none", sent |-> <<>>]
  /\ UNCHANGED <<authVars, pushVars, otherVars>>

\* time passes: the id_token's exp is reached (api.py:101-108)
ApiExpire ==
  /\ is_session_valid(api)
  /\ api' = [api EXCEPT !.valid = FALSE]
  /\ UNCHANGED <<lastCall, authVars, pushVars, otherVars>>

ApiStart ==
  /\ api \in {NewApi(pw, rt, cs, cv) : pw \in BOOLEAN, rt \in BOOLEAN, cs \in BOOLEAN, cv \in {0, 1}}
  /\ lastCall = NoCall

\* the object of a specification that does not use it
ApiUnused ==
  /\ api = NewApi(FALSE, FALSE, FALSE, 0)
  /\ lastCall = NoCall

ApiNext ==
  \/ ApiConnect
  \/ ApiVerifyMfa
  \/ ApiRefreshToken
  \/ \E body \in Bodies : ApiRequest(body)
  \/ ApiRawTransfer
  \/ ApiSendGrpc
  \/ ApiDisconnect
  \/ ApiExpire

(***************************************************************************)
(* Part 3: push dispatch on the entity graph                               *)
(* (system.py, devices/alarm_panel.py, user.py, entity.py)                 *)
(***************************************************************************)

\* ---- bounds of the model
MaxEntries == 2     \* entries in the users / devices list of one message
MaxList == 3        \* length of the panel's device lists
MaxJobs == 2        \* device-arrival tasks that have not ended
MaxRaw == 4         \* length of the raw device list while devices arrive

NoId == 0           \* "_id" / "parid" absent from a dict
PartitionId == 1    \* partition_id of the system's alarm panel
UserIds == {1}      \* ids of the system's users
EntryIds == {NoId, 1, 2}   \* user 1 is known, device 1 is attached at start

\* ---- payloads.  A dict is represented by what validation says of it:
\* "old" as loaded, "new" merged with valid keys, "bad" holding a value its
\* pydantic model rejects.  "none" is a payload without keys of its own.
\* entries of data["us"]: a user dict.  Entries of data["d"]: a device dict
\* with its "_id" and its "panid" ("own": the id of the panel, "other": a
\* different id).  The devices are of the classes built from the raw dict
\* (VivintDevice, UnknownDevice), which validate nothing.
UserEntries == [id : UserIds, val : {"ok", "bad"}] \cup [id : EntryIds \ UserIds, val : {"ok"}]
DeviceEntries == [id : EntryIds, pan : {"own"}] \cup [id : {1}, pan : {"other"}]
OwnEntries == {e \in DeviceEntries : e.pan = "own"}
ListsOf(S) == UNION {[1..k -> S] : k \in 0..MaxEntries}
Payload(own, us, ds) == [kind |-> "dict", own |-> own, users |-> us, devices |-> ds]
AbsentData == [kind |-> "absent", own |-> "none", users |-> <<>>, devices |-> <<>>]
NullData == [kind |-> "null", own |-> "none", users |-> <<>>, devices |-> <<>>]
Msg(t, op, parid, da) == [t |-> t, op |-> op, parid |-> parid, da |-> da]

Owns == {"none", "ok", "bad"}
Ops == {"u", "c", "d"}

PushMessages ==
  {Msg(t, "u", PartitionId, Payload("ok", <<>>, <<>>)) : t \in {"missing", "other"}}
    \cup {Msg("account_system", "u", NoId, da) :
            da \in {AbsentData, NullData}
                     \cup {Payload(o, us, <<>>) : o \in Owns, us \in ListsOf(UserEntries)}}
    \cup {Msg("account_system", "c", NoId, Payload("bad", <<>>, <<>>))}
    \cup {Msg("account_partition", op, PartitionId, Payload(o, <<>>, <<>>)) : op \in Ops, o \in Owns}
    \cup {Msg("account_partition", op, PartitionId, Payload("none", <<>>, ds)) :
            op \in Ops, ds \in ListsOf(OwnEntries) \ {<<>>}}
    \cup {Msg("account_partition", "u", PartitionId, da) : da \in {AbsentData, NullData}}
    \cup {Msg("account_partition", "u", p, Payload("bad", <<>>, <<>>)) : p \in {NoId, PartitionId + 1}}

\* `if data` on the payload
Truthy(da) == da.kind = "dict" /\ (da.own # "none" \/ da.users # <<>> \/ da.devices # <<>>)

\* ---- the graph
NewEntity == [raw |-> "old", model |-> "old"]

SiteStart ==
  [sys |-> NewEntity,
   users |-> [u \in UserIds |-> NewEntity],
   panel |-> NewEntity,
   devices |-> <<[id |-> 1, pan |-> "own"]>>,   \* AlarmPanel.devices: "_id", "panid" of each
   rawDevs |-> <<1>>,                           \* AlarmPanel.data["d"]
   modelDevs |-> <<1>>,                         \* AlarmPanel._data_model.devices
   unreg |-> {},                                \* AlarmPanel.unregistered_devices
   jobs |-> <<>>,                               \* handle_new_device tasks launched
   listening |-> {},                            \* event names a listener is registered for
   log |-> {}]                                  \* events they received from the last operation

NoPush == "none"

\* ---- Entity.emit (entity.py:101-108): the listeners registered on the
\* entities of the graph, if any, receive the event
Emit(g, src, ev, id) ==
  IF ev \in g.listening THEN [g EXCEPT !.log = @ \cup {[src |-> src, ev |-> ev, id |-> id]}] ELSE g

Returned(g) == [g |-> g, exc |-> "none"]
Raised(g, e) == [g |-> g, exc |-> e]

\* ---- Entity.update_data (entity.py:55-77)
\* dict.update / replacement of the raw payload; a rejected value that is not
\* overwritten stays in the dict
Merge(raw, val, override) ==
  CASE val = "none" -> raw
    [] val = "bad" -> "bad"
    [] OTHER -> IF override \/ raw # "bad" THEN "new" ELSE "bad"

\* raw is updated first; the typed model follows unless validation fails,
\* and the failure is swallowed
update_data(e, val, override) ==
  LET r == Merge(e.raw, val, override)
  IN [raw |-> r, model |-> IF r = "bad" THEN e.model ELSE r]

\* ---- User.update_data (user.py:88-91): validates again, outside any try
user_update_data(g, u, val) ==
  LET e == update_data(g.users[u], val, FALSE)
      h == Emit([g EXCEPT !.users[u] = e], "user", "update", u)
  IN IF e.raw = "bad" THEN Raised(h, "ValidationError") ELSE Returned(h)

\* ---- System.update_user_data (system.py:79-86)
RECURSIVE update_user_data(_, _, _)
update_user_data(g, entries, i) ==
  IF i > Len(entries) THEN Returned(g)
  ELSE IF entries[i].id = NoId THEN Raised(g, "KeyError")       \* d["_id"]
  ELSE IF entries[i].id \notin UserIds THEN Returned(g)         \* return: the rest is skipped
  ELSE LET r == user_update_data(g, entries[i].id, entries[i].val)
       IN IF r.exc # "none" THEN r ELSE update_user_data(r.g, entries, i + 1)

\* ---- first_or_none(seq, lambda x: x["_id"] == id): index of the first
\* match, 0 for None, -1 when an element without "_id" is met first (KeyError)
FirstIndex(ids, id) ==
  LET stops == {i \in 1..Len(ids) : ids[i] = id \/ ids[i] = NoId}
  IN IF stops = {} THEN 0
     ELSE LET k == CHOOSE i \in stops : \A j \in stops : i <= j
          IN IF ids[k] = id THEN k ELSE 0 - 1

IdsOf(s) == [i \in 1..Len(s) |-> s[i].id]
Remove(s, k) == SubSeq(s, 1, k - 1) \o SubSeq(s, k + 1, Len(s))

\* ---- AlarmPanel.update_data (alarm_panel.py:228-231)
panel_update_data(g, val) ==
  LET r == Merge(g.panel.raw, val, FALSE)
      h == Emit(g, "panel", "update", NoId)
  IN IF r = "bad"
       THEN Raised([h EXCEPT !.panel.raw = r], "ValidationError")
       ELSE Returned([h EXCEPT !.panel = [raw |-> r, model |-> r], !.modelDevs = g.rawDevs])

\* ---- AlarmPanel.__parse_data (alarm_panel.py:334-363), init = False
RECURSIVE parse_data(_, _, _)
parse_data(g, entries, i) ==
  IF i > Len(entries) THEN Returned(g)
  ELSE LET e == entries[i]
           k == IF e.id = NoId
                  THEN (IF g.devices = <<>> THEN 0 ELSE 0 - 1)  \* device_data["_id"]
                  ELSE FirstIndex(IdsOf(g.devices), e.id)
       IN IF k < 0 THEN Raised(g, "KeyError")
          ELSE IF k > 0                               \* device.update_data(override=True)
            THEN parse_data(Emit([g EXCEPT !.devices[k] = e], "device", "update", e.id),
                            entries, i + 1)
            ELSE parse_data([g EXCEPT !.devices = Append(@, e)], entries, i + 1)

\* ---- AlarmPanel.refresh(data, new_device=True) (alarm_panel.py:233-247)
refresh(g, entries) ==
  LET h == [g EXCEPT !.modelDevs = @ \o IdsOf(entries), !.rawDevs = @ \o IdsOf(entries)]
      r == parse_data(h, entries, 1)
  IN IF r.exc # "none" THEN r
     ELSE IF r.g.panel.raw = "bad" THEN Raised(r.g, "ValidationError")
     ELSE Returned([r.g EXCEPT !.panel.model = r.g.panel.raw, !.modelDevs = r.g.rawDevs])

\* the settle tasks suspended with a reference to the device `id` learn
\* nothing of its removal: `gone` records that the object a task holds has left
\* panel.devices (alarm_panel.py:302, 318)
Forget(jobs, id) ==
  [i \in 1..Len(jobs) |->
     IF jobs[i].pc = "wait" /\ jobs[i].id = id THEN [jobs[i] EXCEPT !.gone = TRUE]
     ELSE jobs[i]]

\* ---- AlarmPanel.handle_pubnub_message, the loop over data["d"]
\* (alarm_panel.py:272-313)
RECURSIVE panel_devices(_, _, _, _)
panel_devices(g, op, entries, i) ==
  IF i > Len(entries) THEN Returned(g)
  ELSE LET e == entries[i]
       IN IF e.id = NoId THEN panel_devices(g, op, entries, i + 1)
          ELSE IF op = "c"
            THEN LET r == refresh(g, entries)
                 IN IF r.exc # "none" THEN r
                    ELSE panel_devices([r.g EXCEPT !.jobs = Append(@, [id |-> e.id, pc |-> "new", gone |-> FALSE])],
                                       op, entries, i + 1)
          ELSE LET k == FirstIndex(IdsOf(g.devices), e.id)
                   j == FirstIndex(g.modelDevs, e.id)
               IN IF k < 0 THEN Raised(g, "KeyError")
                  ELSE IF k = 0 THEN panel_devices(g, op, entries, i + 1)
                  ELSE IF j < 0 THEN Raised(g, "KeyError")
                  ELSE IF op = "d"
                    THEN panel_devices(Emit([g EXCEPT !.devices = Remove(@, k),
                                                      !.modelDevs = IF j > 0 THEN Remove(@, j) ELSE @,
                                                      !.unreg = @ \cup {e.id},
                                                      !.jobs = Forget(@, e.id)],
                                            "panel", "device_deleted", e.id),
                                       op, entries, i + 1)
                    ELSE panel_devices(                \* device.handle_pubnub_message
                           Emit([g EXCEPT !.devices[k].pan = e.pan],
                                "device", "update", e.id),
                           op, entries, i + 1)

\* ---- AlarmPanel.handle_pubnub_message (alarm_panel.py:249-313)
panel_handle_pubnub_message(g, msg) ==
  IF msg.da.kind # "dict" THEN Returned(g)
  ELSE IF msg.da.devices = <<>> THEN panel_update_data(g, msg.da.own)
  ELSE panel_devices(g, msg.op, msg.da.devices, 1)

\* the panel's handler was entered for the message
ViaPanel(r) == [g |-> r.g, exc |-> r.exc, panel |-> TRUE]
ReachedPanel(r) == "panel" \in DOMAIN r

\* the same with the earlier test on the payload, `if not data`, which takes
\* an empty mapping for a heartbeat
handle_pubnub_message_heartbeat(g, msg) ==
  IF msg.t = "account_partition"
    THEN IF msg.parid = NoId \/ ~Truthy(msg.da) \/ msg.parid # PartitionId
           THEN Returned(g)
           ELSE ViaPanel(panel_handle_pubnub_message(g, msg))
  ELSE Returned(g)

\* ---- System.handle_pubnub_message (system.py:88-139)
handle_pubnub_message(g, msg) ==
  IF msg.t = "missing" THEN Raised(g, "KeyError")               \* message["t"]
  ELSE IF msg.t = "account_system"
    THEN IF Truthy(msg.da) /\ msg.op = "u"
           THEN LET r == update_user_data(g, msg.da.users, 1)
                IN IF r.exc # "none" THEN r
                   ELSE Returned(Emit([r.g EXCEPT !.sys = update_data(@, msg.da.own, FALSE)],
                                      "system", "update", NoId))
           ELSE Returned(g)
  ELSE IF msg.t = "account_partition"
    THEN IF msg.parid = NoId \/ msg.da.kind = "absent" \/ msg.parid # PartitionId
           THEN Returned(g)
           ELSE ViaPanel(panel_handle_pubnub_message(g, msg))
  ELSE Returned(g)

WithinBounds(g) ==
  /\ Len(g.devices) <= MaxList
  /\ Len(g.rawDevs) <= MaxList
  /\ Len(g.modelDevs) <= MaxList
  /\ Len(g.jobs) <= MaxJobs

\* one push message delivered to the system
HandlePush(msg) ==
  LET r == handle_pubnub_message([site EXCEPT !.log = {}], msg)
  IN /\ WithinBounds(r.g)
     /\ site' = r.g
     /\ lastPush' = r.exc
     /\ UNCHANGED <<authVars, apiVars, otherVars, device, lastOp>>

\* ---- account_partition messages of every shape, routed by the system
RouteMessages ==
  {Msg("account_partition", op, p, da) :
     op \in Ops, p \in {NoId, PartitionId, PartitionId + 1},
     da \in {AbsentData, NullData}
              \cup {Payload(o, <<>>, <<>>) : o \in Owns}
              \cup {Payload("none", <<>>, <<[id |-> 2, pan |-> "own"]>>)}}

RoutePush(msg) ==
  LET r == handle_pubnub_message(site, msg)
  IN /\ WithinBounds(r.g)
     /\ site' = r.g
     /\ lastPush' = r.exc
     /\ routed' = [msg |-> msg, reached |-> ReachedPanel(r)]
     /\ UNCHANGED <<authVars, apiVars, busVars, streamVars, wsVars, laterVars, device, lastOp>>

RouteNext == \E msg \in RouteMessages : RoutePush(msg)

\* ---- Entity.on, the unsubscribe handle it returns, and Entity.emit

Callbacks == {1, 2, 3}
\* a callback returns, raises, or invokes its own unsubscribe handle and returns
Behaviours == {"plain", "raises", "unsub"}
Range(s) == {s[k] : k \in 1..Len(s)}

\* entity.py:102-107: the for loop walks the live list by position, so the
\* list a callback shortens is the list the next step indexes; every call is
\* inside try/except with a bare except
RECURSIVE dispatch(_, _, _)
dispatch(ls, i, done) ==
  IF i > Len(ls) THEN [ls |-> ls, called |-> done, exc |-> "none"]
  ELSE LET cb == ls[i]
           after == IF behaviour[cb] = "unsub" THEN Remove(ls, i) ELSE ls
       IN dispatch(after, i + 1, Append(done, cb))

BusUnused ==
  /\ listeners = <<>>
  /\ behaviour = [cb \in Callbacks |-> "plain"]
  /\ handles = {}
  /\ before = <<>>
  /\ called = <<>>
  /\ emitExc = "none"

\* ---- one realtime subscription (stream.py:42-71, account.py:159-174)

MaxMsgs == 3
StreamMessages == [seq : 1..MaxMsgs, panid : {"none", "own", "other"}, op : Ops]

\* the callback handed to the event loop as a job instead of being called
message_deferred(q, m) == [run |-> <<>>, deferred |-> Append(q, [kind |-> "message", m |-> m])]

\* _VivintPubNubSubscribeListener.message (stream.py:70-71) calls the
\* callback itself, before it returns
message(q, m) == [run |-> <<m>>, deferred |-> q]

\* Account.handle_pubnub_message -> System.handle_pubnub_message ->
\* AlarmPanel.handle_pubnub_message, all synchronous: the message is applied,
\* listeners of an update or a delete are called, a create launches
\* handle_new_device
account_handle_pubnub_message(st, m) ==
  IF m.panid # "own" THEN st
  ELSE [applied |-> Append(st.applied, m.seq),
        heard |-> CASE m.op = "u" -> Append(st.heard, [seq |-> m.seq, ev |-> "update"])
                    [] m.op = "d" -> Append(st.heard, [seq |-> m.seq, ev |-> "device_deleted"])
                    [] OTHER -> st.heard,
        deferred |-> IF m.op = "c" THEN Append(st.deferred, [kind |-> "settle", m |-> m])
                     ELSE st.deferred]

\* a call the event loop runs later: handle_new_device emitting
\* device_discovered, or a deferred callback
run_deferred(st, job) ==
  IF job.kind = "settle"
    THEN [st EXCEPT !.heard = Append(@, [seq |-> job.m.seq, ev |-> "device_discovered"])]
    ELSE account_handle_pubnub_message(st, job.m)

StreamUnused ==
  /\ channel = <<>>
  /\ nextSeq = 1
  /\ deferred = <<>>
  /\ applied = <<>>
  /\ heard = <<>>

\* the channel hands the subscription its next message
Receive(panid, op) ==
  /\ nextSeq <= MaxMsgs
  /\ channel' = Append(channel, [seq |-> nextSeq, panid |-> panid, op |-> op])
  /\ nextSeq' = nextSeq + 1
  /\ UNCHANGED <<deferred, applied, heard, busVars, routed, wsVars, authVars, apiVars, pushVars, laterVars>>

\* the subscription calls listener.message with the oldest message
StreamMessage ==
  /\ channel # <<>>
  /\ LET r == message(deferred, Head(channel))
         st0 == [applied |-> applied, heard |-> heard, deferred |-> r.deferred]
         st == IF r.run = <<>> THEN st0 ELSE account_handle_pubnub_message(st0, r.run[1])
     IN /\ channel' = Tail(channel)
        /\ applied' = st.applied
        /\ heard' = st.heard
        /\ deferred' = st.deferred
  /\ UNCHANGED <<nextSeq, busVars, routed, wsVars, authVars, apiVars, pushVars, laterVars>>

RunDeferred(i) ==
  /\ i \in 1..Len(deferred)
  /\ LET st == run_deferred([applied |-> applied, heard |-> heard,
                             deferred |-> Remove(deferred, i)], deferred[i])
     IN /\ applied' = st.applied
        /\ heard' = st.heard
        /\ deferred' = st.deferred
  /\ UNCHANGED <<channel, nextSeq, busVars, routed, wsVars, authVars, apiVars, pushVars, laterVars>>

StreamNext ==
  \/ \E panid \in {"none", "own", "other"}, op \in Ops : Receive(panid, op)
  \/ StreamMessage
  \/ \E i \in 1..MaxMsgs : RunDeferred(i)

\* ---- the /ws/events handler after websocket.accept() (events.py:66-221)

QueueCapacity == 1000
MaxCloseTasks == 2
WS_1011_INTERNAL_ERROR == 1011
WS_1000_NORMAL_CLOSURE == 1000

\* a queue built without maxsize
put_nowait_unbounded(n) == [qlen |-> n + 1, full |-> FALSE]

\* asyncio.Queue(maxsize=1000).put_nowait
put_nowait(n) ==
  IF n >= QueueCapacity THEN [qlen |-> n, full |-> TRUE] ELSE [qlen |-> n + 1, full |-> FALSE]

\* websocket.close(code) on a socket the server may have closed already
close(current, code) == IF current = 0 THEN code ELSE current

WsUnused ==
  /\ pc = "subscribing"
  /\ closeCode = 0
  /\ qlen = 0
  /\ closeTasks = 0
  /\ busTask = "running"
  /\ busQueue = TRUE
  /\ stream = "connected"
  /\ account = TRUE
  /\ overflowed = FALSE

NotWs == <<busVars, routed, streamVars, authVars, apiVars, pushVars, laterVars>>

\* events.py:150-157
Subscribe(ok) ==
  /\ pc = "subscribing"
  /\ IF ok
       THEN pc' = "loop" /\ stream' = "subscribed" /\ UNCHANGED closeCode
       ELSE pc' = "done" /\ closeCode' = close(closeCode, WS_1011_INTERNAL_ERROR) /\ UNCHANGED stream
  /\ UNCHANGED <<qlen, closeTasks, busTask, busQueue, account, overflowed, NotWs>>

\* events.py:104-148: pubnub_callback, for a message the filters let through or not
PubnubEvent(passes) ==
  /\ stream = "subscribed"
  /\ LET r == put_nowait(qlen)
     IN IF ~passes THEN UNCHANGED <<qlen, closeTasks, overflowed>>
        ELSE /\ qlen' = r.qlen
             /\ r.full => closeTasks < MaxCloseTasks
             /\ closeTasks' = IF r.full THEN closeTasks + 1 ELSE closeTasks
             /\ overflowed' = (overflowed \/ r.full)
  /\ UNCHANGED <<pc, closeCode, busTask, busQueue, stream, account, NotWs>>

\* the task created at events.py:143-148
CloseTask ==
  /\ closeTasks > 0
  /\ closeTasks' = closeTasks - 1
  /\ closeCode' = close(closeCode, WS_1011_INTERNAL_ERROR)
  /\ UNCHANGED <<pc, qlen, busTask, busQueue, stream, account, overflowed, NotWs>>

\* events.py:73-89: one round of _bus_listener
BusEvent(passes) ==
  /\ busTask = "running"
  /\ busQueue
  /\ LET r == put_nowait(qlen)
     IN IF ~passes THEN UNCHANGED <<qlen, closeCode, busTask, overflowed>>
        ELSE /\ qlen' = r.qlen
             /\ overflowed' = (overflowed \/ r.full)
             /\ closeCode' = IF r.full THEN close(closeCode, WS_1011_INTERNAL_ERROR) ELSE closeCode
             /\ busTask' = IF r.full THEN "ended" ELSE busTask
  /\ UNCHANGED <<pc, closeTasks, busQueue, stream, account, NotWs>>

\* events.py:163-166: one event sent to the client
SendEvent ==
  /\ pc = "loop"
  /\ closeCode = 0
  /\ qlen > 0
  /\ qlen' = qlen - 1
  /\ UNCHANGED <<pc, closeCode, closeTasks, busTask, busQueue, stream, account, overflowed, NotWs>>

\* events.py:170-221: the loop ends with WebSocketDisconnect, CancelledError
\* or another exception (a send on a closed socket among them), and the
\* finally block runs; the close tasks created before run at its first await
ExitCauses == {"disconnect", "cancelled", "error"}
Exit(cause) ==
  /\ pc = "loop"
  /\ pc' = "done"
  /\ LET afterHandler == IF cause = "error" THEN close(closeCode, WS_1011_INTERNAL_ERROR)
                         ELSE closeCode
         afterTasks == IF closeTasks > 0 THEN close(afterHandler, WS_1011_INTERNAL_ERROR)
                       ELSE afterHandler
     IN closeCode' = close(afterTasks, WS_1000_NORMAL_CLOSURE)
  /\ closeTasks' = 0
  /\ busTask' = "cancelled"
  /\ busQueue' = FALSE
  /\ stream' = "disconnected"
  /\ account' = FALSE
  /\ UNCHANGED <<qlen, overflowed, NotWs>>

WsNext ==
  \/ \E ok \in BOOLEAN : Subscribe(ok)
  \/ \E passes \in BOOLEAN : PubnubEvent(passes)
  \/ CloseTask
  \/ \E passes \in BOOLEAN : BusEvent(passes)
  \/ SendEvent
  \/ \E cause \in ExitCauses : Exit(cause)

\* ---- the raw dict of an entity, key by key (entity.py:55-77)

Keys == {"a", "b"}
Absent == 0
Values == {1, 2}
\* a dict over Keys: each key is absent or maps to a value
Dicts == [Keys -> {Absent} \cup Values]

\* variant: the payload replaces the dict whatever override says
data_after_replace(raw, new_val, override) == new_val

\* entity.py:65-68: self.__data = new_val, or self.__data.update(new_val)
data_after(raw, new_val, override) ==
  IF override THEN new_val
  ELSE [k \in Keys |-> IF new_val[k] # Absent THEN new_val[k] ELSE raw[k]]

NewRaw(d) == [data |-> d, pre |-> d, delta |-> d, override |-> FALSE, called |-> FALSE]

EntUnused == ent = NewRaw([k \in Keys |-> Absent])

EntityUpdate(new_val, override) ==
  /\ ent' = [data |-> data_after(ent.data, new_val, override), pre |-> ent.data,
             delta |-> new_val, override |-> override, called |-> TRUE]
  /\ UNCHANGED <<authVars, apiVars, pushVars, busVars, routed, streamVars, wsVars, connVars, snap, tailVars>>

DataStart == ent \in {NewRaw(d) : d \in Dicts}
DataNext == \E new_val \in Dicts, override \in BOOLEAN : EntityUpdate(new_val, override)

\* ---- one device entry of a panel, key by key.  AlarmPanel.__init__
\* (alarm_panel.py:35-48) validates the payload into the typed model, dumps the
\* model into panel.data and builds the device from the payload's entry, so
\* the three copies start equal and are separate objects.

NewSnap(d) == [dev |-> d, typed |-> d, raw |-> d, pushed |-> d, op |-> "none"]
SnapUnused == snap = NewSnap([k \in Keys |-> Absent])

\* alarm_panel.py:293-313, update branch: device.handle_pubnub_message(entry)
\* and raw_device_data.update(entry), raw_device_data being the entry found
\* in self._data_model.devices
SnapUpdatePush(entry) ==
  /\ snap' = [dev |-> data_after(snap.dev, entry, FALSE),
              typed |-> data_after(snap.typed, entry, FALSE),
              raw |-> snap.raw, pushed |-> entry, op |-> "update"]
  /\ UNCHANGED <<authVars, apiVars, pushVars, busVars, routed, streamVars, wsVars, connVars, ent, tailVars>>

\* alarm_panel.py:265-267 and 228-231: a push for the panel itself;
\* update_data merges the panel's own keys and rebuilds the typed model from
\* panel.data
SnapPanelUpdate ==
  /\ snap' = [snap EXCEPT !.typed = snap.raw, !.op = "panel"]
  /\ UNCHANGED <<authVars, apiVars, pushVars, busVars, routed, streamVars, wsVars, connVars, ent, tailVars>>

\* alarm_panel.py:233-247 with new_device=False: panel.data is replaced by
\* the payload, the device updated with override, the typed model rebuilt
SnapRefresh(entry) ==
  /\ snap' = [dev |-> entry, typed |-> entry, raw |-> entry, pushed |-> entry, op |-> "refresh"]
  /\ UNCHANGED <<authVars, apiVars, pushVars, busVars, routed, streamVars, wsVars, connVars, ent, tailVars>>

SnapStart == snap \in {NewSnap(d) : d \in Dicts}
SnapNext ==
  \/ \E entry \in Dicts : SnapUpdatePush(entry)
  \/ SnapPanelUpdate
  \/ \E entry \in Dicts : SnapRefresh(entry)

\* ---- the life of one Account (deps.py:90-119, account.py:65-94,
\* ---- stream.py:74-132, api.py:132-135)

\* holder: "none" before the request, "factory" between Account(...) and
\* connect, "route" while the route runs, "owner" for an account its owner
\* built and connected itself (the /ws/events handler), "done" after
NoAccount ==
  [holder |-> "none", built |-> FALSE, connected |-> FALSE, session |-> "none", custom |-> FALSE,
   pubnub |-> FALSE, channel |-> "idle", left |-> FALSE, closedOnce |-> FALSE]
\* custom: the owner passed its own client session to the constructor
OwnedAccount(custom) ==
  [NoAccount EXCEPT !.holder = "owner", !.built = TRUE, !.session = "open", !.custom = custom]
NoDisc == [op |-> "none", pre |-> NoAccount, calls |-> {}, exc |-> "none"]

\* the calls PubNubStream.disconnect makes on the PubNub client
\* (stream.py:115-132): none without a client and a listener; with them
\* remove_listener, unsubscribe_all and stop, or remove_listener alone when it
\* raises, which the except clause logs
stream_disconnect(a) ==
  IF ~a.pubnub THEN {[a |-> a, calls |-> {}]}
  ELSE {[a |-> [a EXCEPT !.channel = "left", !.left = TRUE],
         calls |-> {"remove_listener", "unsubscribe_all", "stop"}]}
       \cup (IF a.left THEN {[a |-> a, calls |-> {"remove_listener"}]} ELSE {})

\* VivintSkyApi.disconnect (api.py:132-135): closes the session the api made itself
api_disconnect(r) ==
  IF r.a.custom THEN r
  ELSE [a |-> [r.a EXCEPT !.session = "closed"],
        calls |-> r.calls \cup (IF r.a.session = "open" THEN {"session.close"} ELSE {})]

\* Account.disconnect (account.py:88-94)
account_disconnect(a) ==
  {[a |-> [r.a EXCEPT !.connected = FALSE, !.closedOnce = TRUE], calls |-> r.calls] :
     r \in {api_disconnect(q) : q \in IF a.connected THEN stream_disconnect(a)
                                       ELSE {[a |-> a, calls |-> {}]}}}

ConnUnused ==
  /\ conn = NoAccount
  /\ lastDisc = NoDisc

NotConn == <<authVars, apiVars, pushVars, busVars, routed, streamVars, wsVars, ent, snap, tailVars>>

\* deps.py:99-109: no stored refresh token, or Account(...) built
FactoryBuild(stored) ==
  /\ conn.holder = "none"
  /\ conn' = IF stored THEN [conn EXCEPT !.holder = "factory", !.built = TRUE, !.session = "open"]
             ELSE [conn EXCEPT !.holder = "done"]
  /\ UNCHANGED <<lastDisc, NotConn>>

\* deps.py:110-114 with account.py:65-86: api.connect raises, or refresh
\* raises after the connected flag is set, or connect returns and the route gets the account
FactoryConnect(outcome) ==
  /\ conn.holder = "factory"
  /\ conn' = CASE outcome = "api_raises" -> [conn EXCEPT !.holder = "done"]
               [] outcome = "refresh_raises" -> [conn EXCEPT !.holder = "done", !.connected = TRUE]
               [] OTHER -> [conn EXCEPT !.holder = "route", !.connected = TRUE]
  /\ UNCHANGED <<lastDisc, NotConn>>

\* deps.py:116-119: the route returns or raises, the finally clause disconnects
FactoryFinish ==
  /\ conn.holder = "route"
  /\ \E r \in account_disconnect(conn) :
       /\ conn' = [r.a EXCEPT !.holder = "done"]
       /\ lastDisc' = [op |-> "account", pre |-> conn, calls |-> r.calls, exc |-> "none"]
  /\ UNCHANGED NotConn

\* account.py:65-86 called by the owner: api.connect raises, or returns
OwnerConnect(ok) ==
  /\ conn.holder = "owner"
  /\ conn.session = "open"
  /\ conn' = IF ok THEN [conn EXCEPT !.connected = TRUE] ELSE conn
  /\ UNCHANGED <<lastDisc, NotConn>>

\* account.py:141-157 / stream.py:85-113, by whoever holds the account
StreamSubscribe ==
  /\ conn.holder \in {"route", "owner"}
  /\ conn.session = "open"
  /\ conn' = [conn EXCEPT !.pubnub = TRUE, !.channel = "subscribed", !.left = FALSE]
  /\ UNCHANGED <<lastDisc, NotConn>>

\* stream.disconnect() called on the stream itself (events.py:191-196)
StreamDisconnect ==
  /\ conn.holder \in {"route", "owner"}
  /\ \E r \in stream_disconnect(conn) :
       /\ conn' = r.a
       /\ lastDisc' = [op |-> "stream", pre |-> conn, calls |-> r.calls, exc |-> "none"]
  /\ UNCHANGED NotConn

\* account.disconnect() called by the holder (events.py:210-213)
AccountDisconnect ==
  /\ conn.holder \in {"route", "owner"}
  /\ \E r \in account_disconnect(conn) :
       /\ conn' = r.a
       /\ lastDisc' = [op |-> "account", pre |-> conn, calls |-> r.calls, exc |-> "none"]
  /\ UNCHANGED NotConn

ConnStart ==
  /\ conn \in {NoAccount} \cup {OwnedAccount(custom) : custom \in BOOLEAN}
  /\ lastDisc = NoDisc

ConnNext ==
  \/ \E stored \in BOOLEAN : FactoryBuild(stored)
  \/ \E outcome \in {"api_raises", "refresh_raises", "ok"} : FactoryConnect(outcome)
  \/ FactoryFinish
  \/ \E ok \in BOOLEAN : OwnerConnect(ok)
  \/ StreamSubscribe
  \/ StreamDisconnect
  \/ AccountDisconnect

NoRoute == [msg |-> Msg("none", "u", NoId, AbsentData), reached |-> FALSE]

\* ---- the consume loop of /ws/events (events.py:159-169): the buffer holds
\* the events put into it, numbered in the order they entered; the frames are
\* what websocket.send_json was given
MaxEvents == 3      \* events that enter the buffer
MaxPings == 2       \* heartbeats sent

\* variant: the newest event is taken first
get_newest(q) == [item |-> q[Len(q)], rest |-> SubSeq(q, 1, Len(q) - 1)]

\* asyncio.Queue.get on a non-empty queue (events.py:163)
get(q) == [item |-> Head(q), rest |-> Tail(q)]

EventFrame(k) == [event_name |-> "event", ev |-> k]
PingFrame == [event_name |-> "ping", ev |-> 0]
NewFeed == [q |-> <<>>, out |-> <<>>, n |-> 0, open |-> TRUE]
FeedUnused == feed = NewFeed

NotTail == <<authVars, apiVars, pushVars, busVars, routed, streamVars, wsVars, connVars, ent, snap>>
NotFeed == <<NotTail, relay, cam, armed>>
NotRelay == <<NotTail, feed, cam, armed>>
NotCam == <<NotTail, feed, relay, armed>>
NotArmed == <<NotTail, feed, relay, cam>>

\* events.py:143-148 and 82-90: put_nowait by pubnub_callback or the bus
\* listener; on QueueFull the event is dropped and the socket closed
FeedPut ==
  /\ feed.open
  /\ feed.n < MaxEvents
  /\ feed' = IF put_nowait(Len(feed.q)).full THEN [feed EXCEPT !.open = FALSE]
             ELSE [feed EXCEPT !.q = Append(@, feed.n + 1), !.n = @ + 1]
  /\ UNCHANGED NotFeed

\* events.py:163-166: get returns within the 30 s, the event is sent
ForwardEvent ==
  /\ feed.open
  /\ feed.q # <<>>
  /\ feed' = [feed EXCEPT !.q = get(@).rest, !.out = Append(@, EventFrame(get(feed.q).item))]
  /\ UNCHANGED NotFeed

\* events.py:167-169: wait_for(event_queue.get(), timeout=30) times out,
\* which it can only with the buffer empty all along
Heartbeat ==
  /\ feed.open
  /\ feed.q = <<>>
  /\ Cardinality({i \in 1..Len(feed.out) : feed.out[i] = PingFrame}) < MaxPings
  /\ feed' = [feed EXCEPT !.out = Append(@, PingFrame)]
  /\ UNCHANGED NotFeed

\* events.py:170-182: the client goes away or a send fails; the loop ends
FeedClose ==
  /\ feed.open
  /\ feed' = [feed EXCEPT !.open = FALSE]
  /\ UNCHANGED NotFeed

FeedNext == FeedPut \/ ForwardEvent \/ Heartbeat \/ FeedClose

\* ---- the filters of /ws/events (events.py:93-95, 104-148)
NoFilter == 0       \* query parameter absent: None
FilterIds == {1, 2}

\* a realtime message by what the callback reads of it: "panid", the "_id"
\* of each entry of da["d"], and da["_id"] (NoId: the key is absent)
RelayMessages == [panid : {NoId} \cup FilterIds, devs : ListsOf(FilterIds), id : {NoId} \cup FilterIds]
NoRelayMessage == [panid |-> NoId, devs |-> <<>>, id |-> NoId]

\* events.py:120-126: the device id the callback derives
device_id_of(msg) == IF msg.devs # <<>> THEN msg.devs[1] ELSE msg.id

\* events.py:127-131: does the message pass the filters
passes(sf, df, msg) ==
  /\ ~(sf # NoFilter /\ msg.panid # sf)
  /\ ~(df # NoFilter /\ device_id_of(msg) # df)

NewRelay(sf, df) == [sys |-> sf, dev |-> df, called |-> FALSE, msg |-> NoRelayMessage, sent |-> FALSE]
RelayUnused == relay = NewRelay(NoFilter, NoFilter)

\* events.py:104-148: one message handed to pubnub_callback
PubnubCallback(msg) ==
  /\ relay' = [relay EXCEPT !.called = TRUE, !.msg = msg, !.sent = passes(relay.sys, relay.dev, msg)]
  /\ UNCHANGED NotRelay

RelayStart == relay \in {NewRelay(sf, df) : sf \in {NoFilter} \cup FilterIds, df \in {NoFilter} \cup FilterIds}
RelayNext == \E msg \in RelayMessages : PubnubCallback(msg)

\* ---- Camera.handle_pubnub_message (camera.py:279-301)
\* a push by the keys the handler looks at: the value of a key it tests for
\* truth is absent, falsy or truthy; the other keys are absent or present
TestedKeys == {"ctd", "dng", "vis"}
ShapeKeys == {"_id", "t", "act", "s", "dod", "n"}
CameraMessages ==
  {m \in [TestedKeys \cup ShapeKeys -> {"absent", "falsy", "truthy"}] :
     \A k \in ShapeKeys : m[k] # "falsy"}
KeysOf(m) == {k \in DOMAIN m : m[k] # "absent"}
DomainEvents == {"thumbnail_ready", "doorbell_ding", "video_ready", "motion_detected"}

\* camera.py:283-296
classify(m) ==
  IF m["ctd"] = "truthy" THEN "thumbnail_ready"
  ELSE IF m["dng"] = "truthy" THEN "doorbell_ding"
  ELSE IF KeysOf(m) = {"_id", "t"} THEN "video_ready"
  ELSE IF m["vis"] = "truthy" \/ KeysOf(m) \in {{"_id", "act", "s"}, {"_id", "dod", "t"}}
    THEN "motion_detected"
  ELSE "none"

NewCam == [called |-> FALSE, msg |-> [k \in TestedKeys \cup ShapeKeys |-> "absent"], events |-> {}]
CamUnused == cam = NewCam

\* camera.py:279-301: the merge of the push emits "update"; then at most one
\* domain event
CameraPush(m) ==
  /\ cam' = [called |-> TRUE, msg |-> m,
             events |-> {"update"} \cup (IF classify(m) = "none" THEN {} ELSE {classify(m)})]
  /\ UNCHANGED NotCam

CamNext == \E m \in CameraMessages : CameraPush(m)

\* ---- AlarmPanel.state (alarm_panel.py:121-139)
\* the members of ArmedState the panel names (alarm_panel.py:109-139); their
\* int values are any distinct numbers
ArmedState == {"DISARMED", "ARMED_STAY", "ARMED_AWAY", "UNKNOWN"}
UNKNOWN == "UNKNOWN"
MaxValue == 4
Enums == {e \in [ArmedState -> 0..MaxValue] : \A x, y \in ArmedState : e[x] = e[y] => x = y}

\* the values of the raw state: int, str, bool or None
IntStates == {[type |-> "int", n |-> n, s |-> ""] : n \in 0..MaxValue}
Texts ==
  {"0", "1", "2", "3", "4", "DISARMED", "disarmed", "ARMED_STAY", "armed_stay",
   "ARMED_AWAY", "Armed_Away", "garbage", ""}
StrStates == {[type |-> "str", n |-> 0, s |-> t] : t \in Texts}
RawStates ==
  IntStates \cup StrStates
    \cup {[type |-> "none", n |-> 0, s |-> ""], [type |-> "bool", n |-> 0, s |-> ""],
          [type |-> "bool", n |-> 1, s |-> ""]}

\* str.upper on these texts
upper(t) ==
  CASE t = "disarmed" -> "DISARMED"
    [] t = "armed_stay" -> "ARMED_STAY"
    [] t = "Armed_Away" -> "ARMED_AWAY"
    [] t = "garbage" -> "GARBAGE"
    [] OTHER -> t

\* str(n) of the int values
str(n) ==
  CASE n = 0 -> "0" [] n = 1 -> "1" [] n = 2 -> "2" [] n = 3 -> "3" [] n = 4 -> "4"
    [] OTHER -> "many"

\* ArmedState[name] and ArmedState(value): the member, UNKNOWN for
\* KeyError / ValueError
ByName(t) == IF t \in ArmedState THEN t ELSE UNKNOWN
ByValue(e, n) ==
  IF \E a \in ArmedState : e[a] = n THEN CHOOSE a \in ArmedState : e[a] = n ELSE UNKNOWN

\* alarm_panel.py:129-139; int(None) raises TypeError, which is caught
state(e, v) ==
  IF v.type = "str" THEN ByName(upper(v.s))
  ELSE IF v.type = "none" THEN UNKNOWN
  ELSE ByValue(e, v.n)

NewArmed(e, v) == [enum |-> e, raw |-> v, read |-> FALSE, state |-> UNKNOWN]
ArmedUnused ==
  armed = NewArmed(CHOOSE e \in Enums : TRUE, [type |-> "none", n |-> 0, s |-> ""])

\* a panel update replaces the raw state (alarm_panel.py:228-231)
SetState(v) ==
  /\ armed' = [armed EXCEPT !.raw = v, !.read = FALSE]
  /\ UNCHANGED NotArmed

\* the property is read
ReadState ==
  /\ armed' = [armed EXCEPT !.read = TRUE, !.state = state(armed.enum, armed.raw)]
  /\ UNCHANGED NotArmed

ArmedStart == armed \in {NewArmed(e, v) : e \in Enums, v \in RawStates}
ArmedNext == (\E v \in RawStates : SetState(v)) \/ ReadState

TailUnused == FeedUnused /\ RelayUnused /\ CamUnused /\ ArmedUnused

LaterUnused == ConnUnused /\ EntUnused /\ SnapUnused /\ TailUnused

OtherUnused == BusUnused /\ routed = NoRoute /\ StreamUnused /\ WsUnused /\ LaterUnused

\* entity.py:87-99, for a callback that is not in the list at that moment
On(cb) ==
  /\ cb \notin Range(listeners)
  /\ listeners' = Append(listeners, cb)
  /\ handles' = handles \cup {cb}
  /\ UNCHANGED <<behaviour, before, called, emitExc, routed, streamVars, wsVars, authVars, apiVars, pushVars, laterVars>>

\* entity.py:94-97, the handle invoked from outside a dispatch
Unsubscribe(cb) ==
  /\ cb \in handles
  /\ listeners' = IF cb \in Range(listeners) THEN Remove(listeners, FirstIndex(listeners, cb))
                  ELSE listeners
  /\ UNCHANGED <<behaviour, handles, before, called, emitExc, routed, streamVars, wsVars, authVars, apiVars, pushVars, laterVars>>

EmitEvent ==
  LET r == dispatch(listeners, 1, <<>>)
  IN /\ before' = listeners
     /\ listeners' = r.ls
     /\ called' = r.called
     /\ emitExc' = r.exc
     /\ UNCHANGED <<behaviour, handles, routed, streamVars, wsVars, authVars, apiVars, pushVars, laterVars>>

\* ---- registrations one by one: every call of Entity.on is a registration
\* of its own and returns a handle of its own, also for a callback that is
\* registered already.  Here `handles` lists the handles in the order they
\* were returned, each with its callback and whether it has been invoked.
MaxHandles == 3

\* entity.py:94-97: the closure holds the callback and the list, nothing else
unsubscribe(ls, cb) ==
  IF cb \in Range(ls) THEN Remove(ls, FirstIndex(ls, cb)) ELSE ls

\* entity.py:87-99
Register(cb) ==
  /\ Len(handles) < MaxHandles
  /\ listeners' = Append(listeners, cb)
  /\ handles' = Append(handles, [cb |-> cb, invoked |-> FALSE])
  /\ UNCHANGED <<behaviour, before, called, emitExc, routed, streamVars, wsVars, authVars, apiVars, pushVars, laterVars>>

\* the handle returned by the h-th registration is invoked
InvokeHandle(h) ==
  /\ h \in 1..Len(handles)
  /\ listeners' = unsubscribe(listeners, handles[h].cb)
  /\ handles' = [handles EXCEPT ![h].invoked = TRUE]
  /\ UNCHANGED <<behaviour, before, called, emitExc, routed, streamVars, wsVars, authVars, apiVars, pushVars, laterVars>>

HandleStart ==
  /\ listeners = <<>>
  /\ behaviour = [cb \in Callbacks |-> "plain"]
  /\ handles = <<>>
  /\ before = <<>>
  /\ called = <<>>
  /\ emitExc = "none"

HandleNext ==
  \/ \E cb \in Callbacks : Register(cb)
  \/ \E h \in 1..MaxHandles : InvokeHandle(h)
  \/ EmitEvent

BusStart ==
  /\ listeners = <<>>
  /\ behaviour \in [Callbacks -> Behaviours]
  /\ handles = {}
  /\ before = <<>>
  /\ called = <<>>
  /\ emitExc = "none"

BusNext ==
  \/ \E cb \in Callbacks : On(cb)
  \/ \E cb \in Callbacks : Unsubscribe(cb)
  \/ EmitEvent

\* ---- update_data of each entity class, called from outside the graph

\* classes of device by what their update_data does: VivintDevice and
\* UnknownDevice are built from the raw dict and have no typed model; DoorLock
\* (and Switch, Camera, Thermostat) inherit Entity.update_data; WirelessSensor
\* (and GarageDoor) validate once more after it
DeviceClasses == {"VivintDevice", "DoorLock", "WirelessSensor"}
NewDevice(c) == [class |-> c, raw |-> "old", model |-> IF c = "VivintDevice" THEN "none" ELSE "old"]
NoOp == [target |-> "none", val |-> "none", override |-> FALSE]

\* Entity.update_data (entity.py:55-77) on a device without a typed model,
\* inherited as it is, or followed by WirelessSensor.update_data's
\* model_validate (wireless_sensor.py:88-93, garage_door.py:58-61)
device_update_data(d, val, override) ==
  LET r == Merge(d.raw, val, override)
      e == [d EXCEPT !.raw = r, !.model = IF r = "bad" \/ d.class = "VivintDevice" THEN @ ELSE r]
  IN [e |-> e, exc |-> IF r = "bad" /\ d.class = "WirelessSensor" THEN "ValidationError" ELSE "none"]

EntityUnused ==
  /\ device = NewDevice("VivintDevice")
  /\ lastOp = NoOp

SystemUpdateData(val, override) ==
  /\ site' = Emit([site EXCEPT !.sys = update_data(@, val, override), !.log = {}],
                  "system", "update", NoId)
  /\ lastPush' = "none"
  /\ lastOp' = [target |-> "system", val |-> val, override |-> override]
  /\ UNCHANGED <<authVars, apiVars, otherVars, device>>

UserUpdateData(val) ==
  LET r == user_update_data([site EXCEPT !.log = {}], 1, val)
  IN /\ site' = r.g
     /\ lastPush' = r.exc
     /\ lastOp' = [target |-> "user", val |-> val, override |-> FALSE]
     /\ UNCHANGED <<authVars, apiVars, otherVars, device>>

PanelUpdateData(val) ==
  LET r == panel_update_data([site EXCEPT !.log = {}], val)
  IN /\ site' = r.g
     /\ lastPush' = r.exc
     /\ lastOp' = [target |-> "panel", val |-> val, override |-> FALSE]
     /\ UNCHANGED <<authVars, apiVars, otherVars, device>>

DeviceUpdateData(val, override) ==
  LET r == device_update_data(device, val, override)
  IN /\ device' = r.e
     /\ site' = Emit([site EXCEPT !.log = {}], "device", "update", NoId)
     /\ lastPush' = r.exc
     /\ lastOp' = [target |-> "device", val |-> val, override |-> override]
     /\ UNCHANGED <<authVars, apiVars, otherVars>>

EntityStart ==
  /\ site = [SiteStart EXCEPT !.listening = {"update"}]
  /\ lastPush = NoPush
  /\ device \in {NewDevice(c) : c \in DeviceClasses}
  /\ lastOp = NoOp
  /\ OtherUnused

EntityNext ==
  \/ \E val \in Owns, override \in BOOLEAN : SystemUpdateData(val, override)
  \/ \E val \in Owns : UserUpdateData(val)
  \/ \E val \in Owns : PanelUpdateData(val)
  \/ \E val \in Owns, override \in BOOLEAN : DeviceUpdateData(val, override)

PushStart ==
  /\ site = SiteStart
  /\ lastPush = NoPush
  /\ EntityUnused
  /\ OtherUnused

PushNext == \E msg \in PushMessages : HandlePush(msg)

\* ---- the alarm panel on its own: construction, refresh, pushes and the
\* device-arrival tasks (alarm_panel.py)

\* AlarmPanel.__init__ (alarm_panel.py:35-56): __parse_data(init=True) makes a
\* device of every entry of data["d"] and looks no existing device up
AlarmPanel(entries) ==
  [SiteStart EXCEPT !.devices = entries,
                    !.rawDevs = IdsOf(entries),
                    !.modelDevs = IdsOf(entries),
                    !.listening = {"device_deleted", "device_discovered"}]

\* AlarmPanel.refresh(data, new_device=False) (alarm_panel.py:233-247), data
\* being a partition of a validated system payload (system.py:58-77)
refresh_override(g, entries) ==
  LET h == Emit([g EXCEPT !.panel = [raw |-> "new", model |-> "new"],
                          !.rawDevs = IdsOf(entries),
                          !.modelDevs = IdsOf(entries)],
                "panel", "update", NoId)
      r == parse_data(h, entries, 1)
  IN IF r.exc # "none" THEN r ELSE Returned([r.g EXCEPT !.modelDevs = r.g.rawDevs])

\* the payloads of this part: device lists whose entries all have an id
PanelLists == ListsOf({e \in DeviceEntries : e.id # NoId})

PanelMessages ==
  {Msg("account_partition", op, PartitionId, da) :
     op \in Ops, da \in {NullData} \cup {Payload("none", <<>>, ds) : ds \in PanelLists}}

\* one push message handed to AlarmPanel.handle_pubnub_message
PanelPush(msg) ==
  LET r == panel_handle_pubnub_message([site EXCEPT !.log = {}], msg)
  IN /\ WithinBounds(r.g)
     /\ site' = r.g
     /\ lastPush' = r.exc
     /\ UNCHANGED <<authVars, apiVars, otherVars, device, lastOp>>

\* System.refresh reaches the panel with its partition of the new payload
PanelRefresh(entries) ==
  LET r == refresh_override([site EXCEPT !.log = {}], entries)
  IN /\ WithinBounds(r.g)
     /\ site' = r.g
     /\ lastPush' = r.exc
     /\ UNCHANGED <<authVars, apiVars, otherVars, device, lastOp>>

\* AlarmPanel.handle_new_device (alarm_panel.py:315-332), up to its first
\* await: the device is looked up, `assert device`
SettleStart(i) ==
  /\ i \in 1..Len(site.jobs)
  /\ site.jobs[i].pc = "new"
  /\ LET k == FirstIndex(IdsOf(site.devices), site.jobs[i].id)
     IN IF k > 0
          THEN /\ site' = [site EXCEPT !.jobs[i].pc = "wait", !.log = {}]
               /\ lastPush' = "none"
          ELSE /\ site' = [site EXCEPT !.jobs = Remove(@, i), !.log = {}]
               /\ lastPush' = IF k = 0 THEN "AssertionError" ELSE "KeyError"
  /\ UNCHANGED <<authVars, apiVars, otherVars, device, lastOp>>

\* the device is not valid yet and its id is found in unregistered_devices
SettleAbort(i) ==
  /\ i \in 1..Len(site.jobs)
  /\ site.jobs[i].pc = "wait"
  /\ site.jobs[i].id \in site.unreg
  /\ site' = [site EXCEPT !.jobs = Remove(@, i), !.log = {}]
  /\ lastPush' = "none"
  /\ UNCHANGED <<authVars, apiVars, otherVars, device, lastOp>>

\* the device is valid: its payload is fetched (fetched = FALSE: the request
\* fails with VivintSkyApiError, which is logged) and the panel refreshed
\* with the partition it came in, which lists that device
SettleFetch(i, fetched, entries) ==
  /\ i \in 1..Len(site.jobs)
  /\ site.jobs[i].pc = "wait"
  /\ Len(entries) = 1 /\ entries[1].id = site.jobs[i].id
  /\ LET g == [site EXCEPT !.jobs = Remove(@, i), !.log = {}]
         r == IF fetched THEN refresh(g, entries) ELSE Returned(g)
         h == IF fetched /\ r.exc = "none"
                THEN Emit(r.g, "panel", "device_discovered", site.jobs[i].id)
                ELSE r.g
     IN /\ WithinBounds(h)
        /\ site' = h
        /\ lastPush' = r.exc
  /\ UNCHANGED <<authVars, apiVars, otherVars, device, lastOp>>

PanelStart ==
  /\ site \in {AlarmPanel(entries) : entries \in PanelLists}
  /\ lastPush = NoPush
  /\ EntityUnused
  /\ OtherUnused

PanelNext ==
  \/ \E msg \in PanelMessages : PanelPush(msg)
  \/ \E entries \in PanelLists : PanelRefresh(entries)
  \/ \E i \in 1..MaxJobs : SettleStart(i)
  \/ \E i \in 1..MaxJobs : SettleAbort(i)
  \/ \E i \in 1..MaxJobs, fetched \in BOOLEAN, entries \in PanelLists :
        SettleFetch(i, fetched, entries)

(***************************************************************************)
(* Specifications                                                          *)
(***************************************************************************)

AuthInit == AuthStart /\ ApiUnused /\ PushStart
SpecAuth == AuthInit /\ [][AuthNext]_vars

RotateInit == AuthStart /\ ApiUnused /\ PushStart
SpecRotate == RotateInit /\ [][RotateNext]_vars

GuardInit == GuardStart /\ ApiUnused /\ PushStart
SpecGuard == GuardInit /\ [][GuardNext]_vars

ApiInit == AuthStart /\ ApiStart /\ PushStart
SpecApi == ApiInit /\ [][ApiNext]_vars

PushInit == AuthStart /\ ApiUnused /\ PushStart
SpecPush == PushInit /\ [][PushNext]_vars

PanelInit == AuthStart /\ ApiUnused /\ PanelStart
SpecPanel == PanelInit /\ [][PanelNext]_vars

\* ---- the arrival of devices at a panel built without any: create and
\* delete pushes listing devices of the panel, and the tasks they launch
ArrivalEntries == {e \in OwnEntries : e.id # NoId}
ArrivalMessages ==
  {Msg("account_partition", op, PartitionId, Payload("none", <<>>, ds)) :
     op \in {"c", "d"}, ds \in ListsOf(ArrivalEntries) \ {<<>>}}

ArrivalPush(msg) ==
  LET r == panel_handle_pubnub_message([site EXCEPT !.log = {}], msg)
  IN /\ Len(r.g.devices) <= MaxList
     /\ Len(r.g.rawDevs) <= MaxRaw
     /\ Len(r.g.modelDevs) <= MaxRaw
     /\ Len(r.g.jobs) <= MaxJobs
     /\ site' = r.g
     /\ lastPush' = r.exc
     /\ UNCHANGED <<authVars, apiVars, otherVars, device, lastOp>>

ArrivalStart ==
  /\ site = AlarmPanel(<<>>)
  /\ lastPush = NoPush
  /\ EntityUnused
  /\ OtherUnused

ArrivalNext ==
  \/ \E msg \in ArrivalMessages : ArrivalPush(msg)
  \/ \E i \in 1..MaxJobs : SettleStart(i)
  \/ \E i \in 1..MaxJobs : SettleAbort(i)
  \/ \E i \in 1..MaxJobs, fetched \in BOOLEAN, entries \in PanelLists :
        SettleFetch(i, fetched, entries)

ArrivalInit == AuthStart /\ ApiUnused /\ ArrivalStart
SpecArrival == ArrivalInit /\ [][ArrivalNext]_vars

EntityInit == AuthStart /\ ApiUnused /\ EntityStart
SpecEntity == EntityInit /\ [][EntityNext]_vars

RouteInit == AuthStart /\ ApiUnused /\ PushStart
SpecRoute == RouteInit /\ [][RouteNext]_vars

BusInit ==
  /\ AuthStart /\ ApiUnused
  /\ site = SiteStart /\ lastPush = NoPush /\ EntityUnused
  /\ BusStart /\ routed = NoRoute /\ StreamUnused /\ WsUnused /\ LaterUnused

HandleInit ==
  /\ AuthStart /\ ApiUnused
  /\ site = SiteStart /\ lastPush = NoPush /\ EntityUnused
  /\ HandleStart /\ routed = NoRoute /\ StreamUnused /\ WsUnused /\ LaterUnused
SpecHandle == HandleInit /\ [][HandleNext]_vars

\* the loop is a running coroutine: an event in the buffer of an open
\* connection is taken as soon as the client has accepted the frame before it
FeedInit ==
  /\ AuthStart /\ ApiUnused
  /\ site = SiteStart /\ lastPush = NoPush /\ EntityUnused
  /\ BusUnused /\ routed = NoRoute /\ StreamUnused /\ WsUnused
  /\ ConnUnused /\ EntUnused /\ SnapUnused
  /\ FeedUnused /\ RelayUnused /\ CamUnused /\ ArmedUnused
SpecFeed == FeedInit /\ [][FeedNext]_vars /\ WF_vars(ForwardEvent)

RelayInit ==
  /\ AuthStart /\ ApiUnused
  /\ site = SiteStart /\ lastPush = NoPush /\ EntityUnused
  /\ BusUnused /\ routed = NoRoute /\ StreamUnused /\ WsUnused
  /\ ConnUnused /\ EntUnused /\ SnapUnused
  /\ FeedUnused /\ RelayStart /\ CamUnused /\ ArmedUnused
SpecRelay == RelayInit /\ [][RelayNext]_vars

CamInit ==
  /\ AuthStart /\ ApiUnused
  /\ site = SiteStart /\ lastPush = NoPush /\ EntityUnused
  /\ BusUnused /\ routed = NoRoute /\ StreamUnused /\ WsUnused
  /\ ConnUnused /\ EntUnused /\ SnapUnused
  /\ FeedUnused /\ RelayUnused /\ CamUnused /\ ArmedUnused
SpecCam == CamInit /\ [][CamNext]_vars

ArmedInit ==
  /\ AuthStart /\ ApiUnused
  /\ site = SiteStart /\ lastPush = NoPush /\ EntityUnused
  /\ BusUnused /\ routed = NoRoute /\ StreamUnused /\ WsUnused
  /\ ConnUnused /\ EntUnused /\ SnapUnused
  /\ FeedUnused /\ RelayUnused /\ CamUnused /\ ArmedStart
SpecArmed == ArmedInit /\ [][ArmedNext]_vars

ConnInit ==
  /\ AuthStart /\ ApiUnused
  /\ site = SiteStart /\ lastPush = NoPush /\ EntityUnused
  /\ BusUnused /\ routed = NoRoute /\ StreamUnused /\ WsUnused
  /\ ConnStart /\ EntUnused /\ SnapUnused /\ TailUnused
SpecConn == ConnInit /\ [][ConnNext]_vars

DataInit ==
  /\ AuthStart /\ ApiUnused
  /\ site = SiteStart /\ lastPush = NoPush /\ EntityUnused
  /\ BusUnused /\ routed = NoRoute /\ StreamUnused /\ WsUnused
  /\ ConnUnused /\ DataStart /\ SnapUnused /\ TailUnused
SpecData == DataInit /\ [][DataNext]_vars

SnapInit ==
  /\ AuthStart /\ ApiUnused
  /\ site = SiteStart /\ lastPush = NoPush /\ EntityUnused
  /\ BusUnused /\ routed = NoRoute /\ StreamUnused /\ WsUnused
  /\ ConnUnused /\ EntUnused /\ SnapStart /\ TailUnused
SpecSnap == SnapInit /\ [][SnapNext]_vars

\* both specifications start from the state PushStart describes: the stream
\* has received nothing, the handler has just accepted the connection
StreamInit == AuthStart /\ ApiUnused /\ PushStart
SpecStream == StreamInit /\ [][StreamNext]_vars

WsInit == AuthStart /\ ApiUnused /\ PushStart
SpecWs == WsInit /\ [][WsNext]_vars
SpecBus == BusInit /\ [][BusNext]_vars

(***************************************************************************)
(* Claims about the local auth bridge                                      *)
(***************************************************************************)

\* C1: every issued local refresh token buys at most one successful
\* /auth/refresh-token request: the successful refreshes that presented a
\* token never outnumber the times that token was issued.
C1_OneRefreshPerIssuedToken == \A t \in RefreshTokens : rtCredit[t] >= 0

\* C2: a protected endpoint answers 200 only to a bearer JWT that is signed,
\* unexpired, of token_type "access", and whose vivint_refresh_token claim
\* equals the value stored under user:{sub}:vivint_refresh_token; it answers
\* 401 in every other case.
C2_Served(tok, stored, t) ==
  /\ tok.sig
  /\ tok.exp >= t
  /\ tok.tt = "access"
  /\ tok.sub \in Users
  /\ tok.vrt # "none"
  /\ stored = tok.vrt

C3_MfaBlobDeletedAfterVerify ==
  \A r \in Slots :
    (rq[r].kind = "verify" /\ rq[r].pc = "done" /\ rq[r].blob.present)
      => ~kvMfa[rq[r].sid].present

\* C4: after a mismatching refresh token of u has been answered (KV entry
\* deleted) and until a login of u completes, no refresh token of u is stored,
\* so none can be accepted.
C4_RevokedUntilLogin ==
  \A u \in Users : revoked[u] => kvArt[u] = NoTok

\* C5: whenever a handler answers 200 with an access token, the token's
\* vivint_refresh_token claim equals the value stored under
\* user:{u}:vivint_refresh_token at that moment.
C5_ClaimIsStoredValueAtIssue ==
  [][\A r \in Slots :
       (rq[r].pc # "done" /\ rq'[r].pc = "done" /\ rq'[r].res = 200)
         => rq'[r].tok.vrt = kvVrt'[rq'[r].user]]_vars

(***************************************************************************)
(* Claims about the PKCE verifier and the upstream transport               *)
(***************************************************************************)

\* C6: a /auth/verify-mfa request that found a complete stored MFA session
\* (cookies and PKCE verifier) continues the login on an upstream client
\* rebuilt with that verifier, so that the code exchange sends the verifier
\* whose challenge the login sent.
C6_VerifierReachesRebuiltClient ==
  \A r \in Slots :
    (rq[r].kind = "verify" /\ rq[r].pc = "done" /\ BlobComplete(rq[r].blob))
      => rq[r].rebuilt

\* the REST wrapper operations, and the requests they put on the wire
RestOps == {"connect", "verify_mfa", "refresh_token", "request"}
RestRequests(c) == {i \in DOMAIN c.sent : c.sent[i].what \notin {"raw", "grpc"}}

C9_AsStated ==
  \A i \in DOMAIN lastCall.sent :
    (lastCall.sent[i].what # "grpc" /\ ~lastCall.sent[i].auth)
      => lastCall.sent[i].bearer # 0

\* C9 (amended): every request the REST wrapper sends to a host other than
\* the auth host carries Authorization: Bearer with the access token held at
\* that moment, and no request it sends to the auth host carries the header.
C9_BearerOnApiHostOnly ==
  \A i \in RestRequests(lastCall) :
    LET q == lastCall.sent[i] IN
    IF q.auth THEN q.bearer = 0 ELSE (q.bearer # 0 /\ q.bearer = q.cur)

C9_Witness ==
  /\ lastCall.op = "request"
  /\ lastCall.pre.token # 0
  /\ Len(lastCall.sent) = 3
  /\ lastCall.sent[1].auth /\ lastCall.sent[1].cur # 0
  /\ ~lastCall.sent[3].auth /\ lastCall.sent[3].bearer # lastCall.pre.token

(***************************************************************************)
(* Claims about push dispatch                                              *)
(***************************************************************************)

\* C10: for every push message, however malformed (no type tag, entries
\* without id, entries for unknown users or devices, values failing schema
\* validation), System.handle_pubnub_message returns without raising and
\* leaves the graph unchanged or validly updated: every entity whose raw
\* payload validates has a typed model that agrees with it.
EntitiesOf(g) == {g.sys, g.panel} \cup {g.users[u] : u \in UserIds}
C10_HandlePushNeverRaises ==
  /\ lastPush = "none"
  /\ \A e \in EntitiesOf(site) : e.raw # "bad" => e.model = e.raw

(***************************************************************************)
(* Claims about the alarm panel's device list                              *)
(***************************************************************************)

\* C11: after AlarmPanel.handle_pubnub_message processed a delete for a
\* device id k that was in the panel (the panel emitted device_deleted for
\* k), k is the id of no device in panel.devices and k is a key of
\* panel.unregistered_devices.
C11_DeletedIsUnregistered ==
  \A ev \in site.log :
    ev.ev = "device_deleted" =>
      /\ \A i \in 1..Len(site.devices) : site.devices[i].id # ev.id
      /\ ev.id \in site.unreg

\* C12: after any sequence of panel construction, refreshes, pushes and
\* device-arrival task steps, no two devices of panel.devices have the same
\* device id.
C12_DeviceIdsUnique ==
  \A i, j \in 1..Len(site.devices) :
    i # j => site.devices[i].id # site.devices[j].id

\* C13: after any sequence of refreshes and pushes, every device d of
\* panel.devices has d.panel_id == panel.id (d.alarm_panel is the panel by
\* construction: alarm_panel.py:365-369).
C13_DevicePanelIdIsPanelId ==
  \A i \in 1..Len(site.devices) : site.devices[i].pan = "own"

\* C16: for every entity class (system, panel, user, device), when
\* update_data leaves raw in a state that fails revalidation, the call
\* completes without raising, the typed model keeps the value it had before
\* the call and the update event is emitted.
EntityOf(g, d, target) ==
  CASE target = "system" -> g.sys
    [] target = "user" -> g.users[1]
    [] target = "panel" -> g.panel
    [] OTHER -> d
C16_FailedRevalidationIsSwallowed ==
  [][(lastOp' # NoOp /\ EntityOf(site', device', lastOp'.target).raw = "bad") =>
       /\ lastPush' = "none"
       /\ EntityOf(site', device', lastOp'.target).model = EntityOf(site, device, lastOp'.target).model
       /\ \E ev \in site'.log : ev.ev = "update" /\ ev.src = lastOp'.target]_vars

\* ---------------------------------------------------------------------------
\* Claims about entity listeners
\* ---------------------------------------------------------------------------

\* C14: a listener registered on an entity is called for every event emitted
\* after its registration and before its own unsubscribe handle is invoked,
\* also when other listeners unsubscribe during the dispatch: every callback
\* in the list when an emit begins is called by that emit.
C14_RegisteredListenerIsCalled ==
  \A cb \in Range(before) : cb \in Range(called)

\* C15: when a listener raises during the dispatch of an event, every other
\* listener registered for the event is still called, in registration order,
\* and the exception does not reach the code that emitted the event.
C15_RaisingListenerStarvesNoOne ==
  (\E k \in 1..Len(called) : behaviour[called[k]] = "raises") =>
     called = before /\ emitExc = "none"

\* ---------------------------------------------------------------------------
\* Claims about the routing of account_partition messages
\* ---------------------------------------------------------------------------

\* C17: an account_partition push reaches the panel's handler if and only if
\* it carries a partition id, carries the data key (an empty data mapping
\* counts as present) and a panel with that partition id exists; otherwise it
\* is dropped without changing the graph and without raising.
Forwardable(msg) ==
  /\ msg.parid # NoId
  /\ msg.da.kind \in {"null", "dict"}
  /\ msg.parid = PartitionId
Increasing(s) == \A i, j \in 1..Len(s) : i < j => s[i] < s[j]
Synchronous(s) == SelectSeq(s, LAMBDA e : e.ev # "device_discovered")
C18_MessagesInReceiveOrder ==
  /\ Increasing(applied)
  /\ Increasing([k \in 1..Len(Synchronous(heard)) |-> Synchronous(heard)[k].seq])
C18_TwoMessagesHeard ==
  /\ Len(applied) >= 2
  /\ Len(Synchronous(heard)) >= 2
  /\ channel # <<>>

\* C19: whenever an event arrives for a WebSocket connection whose buffer
\* already holds 1000 undelivered events, the server closes that WebSocket
\* with close code 1011 (the close is done or is a task about to run), and
\* the buffer never holds more than 1000 events.
C19_OverflowCloses1011 ==
  /\ qlen <= QueueCapacity
  /\ overflowed => closeCode = WS_1011_INTERNAL_ERROR \/ closeTasks > 0
C19_OverflowClosed ==
  /\ overflowed
  /\ qlen = QueueCapacity
  /\ closeCode = WS_1011_INTERNAL_ERROR
  /\ closeTasks = 0

\* C20: whenever an accepted /ws/events connection ends (client disconnect,
\* send error, overflow close or failed channel subscription), its background
\* tasks are cancelled, the realtime channel is unsubscribed and the upstream
\* client is disconnected.
C20_EndedConnectionIsCleanedUp ==
  pc = "done" =>
    /\ busTask # "running"
    /\ ~busQueue
    /\ stream = "disconnected"
    /\ ~account

\* ---------------------------------------------------------------------------
\* Claims about the life of an upstream client
\* ---------------------------------------------------------------------------

\* C21: every upstream client the per-request factory constructs is
\* disconnected by the time the request completes, whatever the outcome of
\* connect or of the route: its client session is closed and its connected
\* flag is off.
C21_FactoryAccountIsDisconnected ==
  (conn.holder = "done" /\ conn.built) => conn.session = "closed" /\ ~conn.connected

\* C22: a second disconnect on an already disconnected realtime stream or
\* upstream client makes no call on the channel or the transport, raises
\* nothing and leaves the state a single disconnect left.
AlreadyDisconnected(d) ==
  \/ d.op = "stream" /\ d.pre.left
  \/ d.op = "account" /\ d.pre.closedOnce /\ (d.pre.connected => d.pre.left)
C22_SecondDisconnectIsNoOp ==
  AlreadyDisconnected(lastDisc) =>
    /\ lastDisc.calls = {}
    /\ lastDisc.exc = "none"
    /\ [conn EXCEPT !.holder = "x"] = [lastDisc.pre EXCEPT !.holder = "x"]

\* ---------------------------------------------------------------------------
\* Claims about the raw dict of an entity
\* ---------------------------------------------------------------------------

\* C23: after update_data(delta) with override=false, every key of delta maps
\* to delta's value in raw and every other key of raw is unchanged; with
\* override=true, raw equals delta.
C23_UpdateDataMerges ==
  ent.called =>
    IF ent.override THEN ent.data = ent.delta
    ELSE \A k \in Keys :
           ent.data[k] = IF ent.delta[k] # Absent THEN ent.delta[k] ELSE ent.pre[k]
C23_PartialDeltaMerged ==
  /\ ent.called /\ ~ent.override
  /\ \E k \in Keys : ent.pre[k] # Absent /\ ent.delta[k] # Absent /\ ent.delta[k] # ent.pre[k]
  /\ \E k \in Keys : ent.pre[k] # Absent /\ ent.delta[k] = Absent /\ ent.data[k] = ent.pre[k]

\* ---------------------------------------------------------------------------
\* Claims about create, delete and update pushes and the settle task
\* ---------------------------------------------------------------------------

\* C24: a create push carrying N device entries applies refresh(data,
\* new_device=true) once for the whole push, so that the panel's raw device
\* list gains each pushed entry once, and one settle task is launched for
\* each device id that is new to the panel and none for the ids already present.
Launched(g, h) == SubSeq(h.jobs, Len(g.jobs) + 1, Len(h.jobs))
C24_CreateRefreshesOnce ==
  [][\A msg \in PanelMessages :
       (msg.op = "c" /\ msg.da.devices # <<>> /\ PanelPush(msg) /\ lastPush' = "none") =>
         LET pushed == Range(IdsOf(msg.da.devices))
             fresh == pushed \ Range(IdsOf(site.devices))
         IN /\ Len(site'.rawDevs) = Len(site.rawDevs) + Len(msg.da.devices)
            /\ Len(Launched(site, site')) = Cardinality(fresh)
            /\ {j.id : j \in Range(Launched(site, site'))} = fresh]_vars

\* C25: after a delete push for an existing device id k, the panel's raw
\* device list (data["d"], and the list of the typed model rebuilt from it by
\* every revalidation) holds no entry with id k.
C25_DeletedLeavesRawList ==
  \A ev \in site.log :
    ev.ev = "device_deleted" =>
      ev.id \notin Range(site.rawDevs) /\ ev.id \notin Range(site.modelDevs)

\* C26: after an update push for an existing device id k, the entry for k in
\* the panel's raw device list contains every key of the pushed entry with
\* the pushed value, in agreement with the raw data of device k itself.
C26_UpdateReachesRawEntry ==
  snap.op = "update" =>
    \A k \in Keys :
      snap.pushed[k] # Absent =>
        snap.raw[k] = snap.pushed[k] /\ snap.dev[k] = snap.pushed[k]

\* C27: a create push for device id k leads, once the device is valid and the
\* GET succeeds, to one device_discovered event for k on the panel and no
\* more for that push: the push leaves one settle task for k, and a task
\* whose fetch succeeds emits the event as it ends.
C27_DiscoveredOncePerPush ==
  [][/\ \A msg \in ArrivalMessages :
          (msg.op = "c" /\ ArrivalPush(msg) /\ lastPush' = "none") =>
            \A k \in Range(IdsOf(msg.da.devices)) :
              Cardinality({i \in DOMAIN Launched(site, site') :
                             Launched(site, site')[i].id = k}) = 1
     /\ \A i \in 1..MaxJobs, entries \in PanelLists :
          (SettleFetch(i, TRUE, entries) /\ lastPush' = "none"
             /\ "device_discovered" \in site.listening) =>
            /\ [src |-> "panel", ev |-> "device_discovered", id |-> site.jobs[i].id] \in site'.log
            /\ Len(site'.jobs) = Len(site.jobs) - 1]_vars

\* C28: no device id is at once the id of a device in panel.devices and a key
\* of panel.unregistered_devices.
C28_DevicesNotUnregistered ==
  Range(IdsOf(site.devices)) \cap site.unreg = {}

\* C29: when device_discovered is emitted for a device, that device object is
\* in panel.devices, also when a delete push arrived while the settle task
\* was suspended.
C29_DiscoveredDeviceIsListed ==
  [][\A i \in 1..MaxJobs, entries \in PanelLists :
       (/\ SettleFetch(i, TRUE, entries)
        /\ [src |-> "panel", ev |-> "device_discovered", id |-> site.jobs[i].id] \in site'.log)
         => ~site.jobs[i].gone]_vars

\* C30: when the upstream answers the submission of an MFA code with 400, 401
\* or 403, verify_mfa fails with MfaRequired and leaves the session
\* MFA-pending, so that calls other than MFA ones stay blocked.
C30_RejectedCodeKeepsMfaPending ==
  (/\ lastCall.op = "verify_mfa"
   /\ Len(lastCall.sent) = 1
   /\ lastCall.sent[1].what = "validate"
   /\ lastCall.sent[1].resp \in Denied)
    => (api.pending /\ lastCall.exc = "MfaRequired")

\* C31: when verify_mfa returns without error on a session that was
\* MFA-pending, the session is authenticated: MFA-pending is cleared and
\* upstream tokens are held, whether the upstream returned tokens directly or
\* a url to follow.
C31_VerifiedSessionHoldsTokens ==
  (lastCall.op = "verify_mfa" /\ lastCall.pre.pending /\ lastCall.exc = "none")
    => (~api.pending /\ api.token # 0)

\* C32: every upstream transport call ends with a result or an error after a
\* bounded number of connect attempts, also when every token the upstream
\* returns is already expired: no call nests connect inside connect until the
\* interpreter's recursion limit ends it.
C32_ConnectAttemptsBounded ==
  lastCall.op \in {"connect", "request", "raw"} => lastCall.exc # "RecursionError"

\* C33: POST /auth/login for a user with a stored upstream refresh token
\* tries the refresh-token grant first and, whenever that attempt fails, goes
\* on to the PKCE password login instead of failing the request.
C33_FailedRefreshFallsBack ==
  [][\A r \in Slots :
       (rq[r].pc = "l_rt" /\ rq'[r].pc # "l_rt") => rq'[r].pc \in {"l_setvrt", "l_pw"}]_vars

C35_EveryKnownUserIsUpdated ==
  [][\A msg \in PushMessages :
       (/\ HandlePush(msg)
        /\ lastPush' = "none"
        /\ msg.t = "account_system" /\ msg.op = "u" /\ Truthy(msg.da)
        /\ \E i \in DOMAIN msg.da.users :
             msg.da.users[i].id \in UserIds /\ msg.da.users[i].val = "ok")
         => \A i \in DOMAIN msg.da.users :
              LET e == msg.da.users[i]
              IN (e.id \in UserIds /\ e.val = "ok" /\ site.users[e.id].raw = "old")
                   => site'.users[e.id].raw = "new"]_vars

\* C36: invoking an unsubscribe handle removes only the registration that
\* returned it: a second invocation changes nothing, and the other
\* registrations, the same callback registered once more among them, stay:
\* each callback is in the listener list once for every handle returned for
\* it that has not been invoked.
C36_HandleRemovesOwnRegistration ==
  \A cb \in Callbacks :
    Cardinality({i \in 1..Len(listeners) : listeners[i] = cb})
      = Cardinality({h \in 1..Len(handles) : handles[h].cb = cb /\ ~handles[h].invoked})

\* C37: on an accepted /ws/events connection the events that entered the
\* buffer are forwarded in buffer order, none skipped: the event frames sent
\* followed by the buffer are the events in the order they entered; a ping is
\* sent only while the buffer is empty and the loop goes on after it; and an
\* event in the buffer is forwarded unless the connection ends first.
EventsOf(out, i) ==
  Cardinality({j \in 1..i : out[j] # PingFrame})
Concerns(msg, d) ==
  IF msg.devs # <<>> THEN \E i \in DOMAIN msg.devs : msg.devs[i] = d ELSE msg.id = d
C38_ForwardedIffConcerned ==
  relay.called =>
    (relay.sent <=>
       /\ (relay.sys # NoFilter => relay.msg.panid = relay.sys)
       /\ (relay.dev # NoFilter => Concerns(relay.msg, relay.dev)))
\* a message that names the filtered device as its second entry was handled
C38_SecondEntryIsFiltered ==
  /\ relay.called /\ relay.dev # NoFilter
  /\ Len(relay.msg.devs) = 2 /\ relay.msg.devs[2] = relay.dev /\ relay.msg.devs[1] # relay.dev

\* C39: a camera push emits doorbell_ding if and only if it carries the
\* ding-dong key, whatever other keys it carries, and it emits at most one
\* of thumbnail_ready, doorbell_ding, video_ready, motion_detected.  The key
\* counts as carried when it is set to a true value (the code tests it with
\* message.get); a push that sets it to false rings no bell.
C39_DingIffKeyAndOneEvent ==
  cam.called =>
    /\ ("doorbell_ding" \in cam.events <=> cam.msg["dng"] = "truthy")
    /\ Cardinality(cam.events \cap DomainEvents) <= 1
\* a push with the ding-dong key and a thumbnail date was handled
C39_DingWithThumbnail ==
  cam.called /\ cam.msg["dng"] = "truthy" /\ cam.msg["ctd"] = "truthy"

\* C40: decoding the armed state never raises; an int value and its
\* numeric-string form decode to the same state, an uppercase textual label
\* decodes to the labelled state, and every other value decodes to Unknown.
C40_DecodeIsTotalAndConsistent ==
  armed.read =>
    /\ armed.state \in ArmedState
    /\ \A v \in IntStates :
         (armed.raw.type = "str" /\ armed.raw.s = str(v.n)) => armed.state = state(armed.enum, v)
    /\ (armed.raw.type = "str" /\ armed.raw.s \in ArmedState) => armed.state = armed.raw.s
    /\ (armed.raw.type = "int" /\ \A a \in ArmedState : armed.enum[a] # armed.raw.n)
          => armed.state = UNKNOWN
    /\ (armed.raw.type = "str" /\ armed.raw.s \in {"garbage", ""}) => armed.state = UNKNOWN
    /\ armed.raw.type = "none" => armed.state = UNKNOWN
\* the numeric string of a member's value was decoded
C40_NumericStringRead ==
  /\ armed.read /\ armed.raw.type = "str"
  /\ \E a \in ArmedState \ {UNKNOWN} : armed.raw.s = str(armed.enum[a])

====
